---- MODULE Spec2Model ----
(***************************************************************************)
(* Model of the Papadiamantis expert-evaluation client (assets/app.js and  *)
(* its hidden-form/iframe variant): the session state machine, the         *)
(* validator, write-through persistence to localStorage and the            *)
(* submission pipeline with both transports.                               *)
(***************************************************************************)
EXTENDS Integers, Sequences, FiniteSets, TLC

VARIABLES
    build,             \* "fetch" (assets/app.js) or "iframe" (submitViaNetlifyForm variant)
    assignmentFile,    \* content served at data/assignments/<expert>.json
    localStorage,      \* key -> null | Some(raw value)
    page,              \* init's progress: "loading" | "ready" | "failed"
    assignment,        \* module-level `assignment`: null | Some(file content)
    stateKey,          \* module-level `stateKey`: null | Some(key)
    state,             \* module-level `state`: null | Some(session record)
    screen,            \* the screen without the "hidden" class
    dom,               \* what render() last built: task key, theme field, Back disabled
    consentChecked,    \* $("consentCheck").checked
    btnStartDisabled,  \* $("btnStart").disabled
    btnSubmitDisabled, \* $("btnSubmit").disabled
    submitStatus,      \* $("submitStatus").textContent
    alertMsg,          \* alert() raised by the last handler ("" if none)
    flight,            \* the awaited transmission of submit(), if any
    txLog,             \* history: every transmission handed to the forms collaborator
    lastOutcome,       \* history: how the latest transmission ended, as far as the page saw
    idCounter,         \* history: number of randomId() draws so far
    resubmits,         \* history: calls of submit() made on a submitted session
    now,               \* Date.now()
    timeOnTask,        \* history: task key -> time that has passed with the cursor on it
    vIn,               \* validator harness: the (task, answer) under test
    vOut               \* validator harness: validateTask's result for vIn

vars == << build, assignmentFile, localStorage, page, assignment, stateKey, state,
           screen, dom, btnStartDisabled, consentChecked, btnSubmitDisabled, submitStatus, alertMsg,
           flight, txLog, lastOutcome, idCounter, resubmits, now, timeOnTask, vIn, vOut >>

-----------------------------------------------------------------------------
(* JavaScript values.  A nullable value is a set with at most one element. *)

null == {}
Some(v) == {v}
Val(m) == CHOOSE v \in m : TRUE

\* !!x for a nullable number: null and 0 are falsy.
TruthyNum(m) == m # null /\ m # Some(0)
\* !!x for a nullable string (strings are sequences of characters).
TruthyStr(m) == m # null /\ m # Some(<<>>)
\* Number(x) for a nullable number: Number(null) = 0.
Number(m) == IF m = null THEN 0 ELSE Val(m)

\* f[k] of a JS object used as a map: undefined (null here) when k is no key.
Lookup(f, k) == IF k \in DOMAIN f THEN Some(f[k]) ELSE null
\* f[k] = v on a JS object used as a map.
Put(f, k, v) == [x \in (DOMAIN f) \cup {k} |-> IF x = k THEN v ELSE f[x]]
EmptyMap == [x \in {} |-> 0]

Max2(a, b) == IF a >= b THEN a ELSE b
Min2(a, b) == IF a <= b THEN a ELSE b

\* Texts are sequences over this alphabet; " " is the whitespace character.
IsSpace(c) == c = " "
RECURSIVE TrimStart(_)
TrimStart(s) == IF s # <<>> /\ IsSpace(Head(s)) THEN TrimStart(Tail(s)) ELSE s
RECURSIVE TrimEnd(_)
TrimEnd(s) == IF s # <<>> /\ IsSpace(s[Len(s)]) THEN TrimEnd(SubSeq(s, 1, Len(s) - 1)) ELSE s
\* String.prototype.trim
Trim(s) == TrimEnd(TrimStart(s))

clamp(n, lo, hi) == Max2(lo, Min2(hi, n))

-----------------------------------------------------------------------------
(* Tasks and answers.                                                      *)

STORAGE_PREFIX == "pap_eval_v2"

GetAnswerKey_ByTaskId(task) == task.task_id

\* Falsy task_uid / task_id are the empty text.
getAnswerKey(task) == IF task.task_uid # "" THEN task.task_uid ELSE task.task_id

\* Messages of validateTask, by the rule violated.
MsgAnswerCluster == "answer the cluster"
MsgRateAllItems == "rate (1-5) every item"
MsgRateRelatedness == "rate relatedness (1-5)"
MsgCommonTheme == "write the common theme (for >=4)"

ValidateTask_NoThemeRule(task, answer) ==
    IF task.type = "cluster" THEN
        IF answer = null THEN [ok |-> FALSE, msg |-> MsgAnswerCluster]
        ELSE IF \E i \in 1..Len(task.items) :
                    LET a == Lookup(Val(answer).items, task.items[i])
                    IN  a = null \/ ~TruthyNum(Val(a).coherence)
             THEN [ok |-> FALSE, msg |-> MsgRateAllItems]
             ELSE [ok |-> TRUE, msg |-> ""]
    ELSE IF task.type = "pair" THEN
        IF answer = null \/ ~TruthyNum(Val(answer).relatedness)
        THEN [ok |-> FALSE, msg |-> MsgRateRelatedness]
        ELSE [ok |-> TRUE, msg |-> ""]
    ELSE [ok |-> TRUE, msg |-> ""]

\* `answer` is state.answers[key]: null when the map has no such key.
validateTask(task, answer) ==
    IF task.type = "cluster" THEN
        IF answer = null THEN [ok |-> FALSE, msg |-> MsgAnswerCluster]
        ELSE IF \E i \in 1..Len(task.items) :
                    LET a == Lookup(Val(answer).items, task.items[i])
                    IN  a = null \/ ~TruthyNum(Val(a).coherence)
             THEN [ok |-> FALSE, msg |-> MsgRateAllItems]
             ELSE [ok |-> TRUE, msg |-> ""]
    ELSE IF task.type = "pair" THEN
        IF answer = null \/ ~TruthyNum(Val(answer).relatedness)
        THEN [ok |-> FALSE, msg |-> MsgRateRelatedness]
        ELSE IF Number(Val(answer).relatedness) >= 4
                /\ Trim(Val(answer).common_theme) = <<>>
             THEN [ok |-> FALSE, msg |-> MsgCommonTheme]
             ELSE [ok |-> TRUE, msg |-> ""]
    ELSE [ok |-> TRUE, msg |-> ""]

-----------------------------------------------------------------------------
(* The assignment files and the page's inputs.                             *)

\* Identifiers are texts: sequences of tokens, "::" being the separator of storage keys.
expertId == <<"E1">>

ClusterTask == [type |-> "cluster", task_uid |-> "c1", task_id |-> "t1",
                clustering_id |-> "A", cluster_id |-> "0", batch_index |-> Some(0),
                items |-> <<"d1">>]
PairTask == [type |-> "pair", task_uid |-> "p1", task_id |-> "t2", clustering_id |-> "A"]

AssignmentFiles == { [assignment_id |-> <<"asg1">>, tasks |-> <<ClusterTask, PairTask>>],
                     [assignment_id |-> <<"asg0">>, tasks |-> <<>>] }

\* What the user can pick on a 1..5 scale, and type into the text inputs.
RatingInputs == {3, 4, 5}
CoherenceInputs == {5}
NoteInputs == {<<"x">>}
ThemeInputs == {<<>>, <<"x">>}

\* Cap on the optional fields (notes, labels, misplaced flags) the user fills in.
MaxOptional == 1

\* Cap on the submission attempts of one behaviour that pass validation.
MaxAttempts == 2

\* Cap on the calls of submit() made on a session that is already submitted.
MaxResubmits == 2

-----------------------------------------------------------------------------
(* Storage adapter.                                                        *)

\* `${STORAGE_PREFIX}::${expertId}::${assignmentId}`
storageKey(e, assignmentId) == <<STORAGE_PREFIX, "::">> \o e \o <<"::">> \o assignmentId
\* `${STORAGE_PREFIX}::client_session_id::${expertId || "unknown"}`
clientSessionKey(e) ==
    <<STORAGE_PREFIX, "::", "client_session_id", "::">>
        \o (IF e = <<>> THEN <<"unknown">> ELSE e)

StorageKeys == {storageKey(expertId, f.assignment_id) : f \in AssignmentFiles}
                   \cup {clientSessionKey(expertId)}

defaultState ==
    [started |-> FALSE, taskIndex |-> 0, answers |-> EmptyMap,
     startedAt |-> null, finishedAt |-> null,
     clientSessionId |-> null, submitted |-> FALSE, lastSubmissionUuid |-> null,
     taskTimeMs |-> EmptyMap, _lastTaskKey |-> null, _lastTaskEnterAt |-> null]

\* JSON values: null, true/false, numbers, strings, and objects (member name -> value).
JNull == [j |-> "null"]
JBool(b) == [j |-> "bool", v |-> b]
JNum(n) == [j |-> "num", v |-> n]
JStr(t) == [j |-> "str", v |-> t]
JObj(members) == [j |-> "obj", v |-> members]

\* JSON.stringify, by the shape of the value: null is written as null, an object member
\* by member.
StringifyNullableNum(m) == IF m = null THEN JNull ELSE JNum(Val(m))
StringifyNullableStr(m) == IF m = null THEN JNull ELSE JStr(Val(m))
StringifyItemAnswer(a) ==
    JObj([coherence |-> StringifyNullableNum(a.coherence),
          misplaced |-> JBool(a.misplaced),
          note |-> JStr(a.note)])
StringifyAnswer_UnratedAsZero(a) ==
    IF "items" \in DOMAIN a
    THEN JObj([items |-> JObj([k \in DOMAIN a.items |-> StringifyItemAnswer(a.items[k])]),
               cluster_label |-> JStr(a.cluster_label),
               cluster_note |-> JStr(a.cluster_note)])
    ELSE JObj([relatedness |-> IF a.relatedness = null THEN JNum(0) ELSE JNum(Val(a.relatedness)),
               common_theme |-> JStr(a.common_theme),
               note |-> JStr(a.note)])
StringifyAnswer(a) ==
    IF "items" \in DOMAIN a
    THEN JObj([items |-> JObj([k \in DOMAIN a.items |-> StringifyItemAnswer(a.items[k])]),
               cluster_label |-> JStr(a.cluster_label),
               cluster_note |-> JStr(a.cluster_note)])
    ELSE JObj([relatedness |-> StringifyNullableNum(a.relatedness),
               common_theme |-> JStr(a.common_theme),
               note |-> JStr(a.note)])
StringifyState(s) ==
    JObj([started |-> JBool(s.started),
          taskIndex |-> JNum(s.taskIndex),
          answers |-> JObj([k \in DOMAIN s.answers |-> StringifyAnswer(s.answers[k])]),
          startedAt |-> StringifyNullableStr(s.startedAt),
          finishedAt |-> StringifyNullableStr(s.finishedAt),
          clientSessionId |-> StringifyNullableStr(s.clientSessionId),
          submitted |-> JBool(s.submitted),
          lastSubmissionUuid |-> StringifyNullableStr(s.lastSubmissionUuid),
          taskTimeMs |-> JObj([k \in DOMAIN s.taskTimeMs |-> JNum(s.taskTimeMs[k])]),
          _lastTaskKey |-> StringifyNullableStr(s._lastTaskKey),
          _lastTaskEnterAt |-> StringifyNullableNum(s._lastTaskEnterAt)])

\* JSON.parse: the value a JSON text denotes.
ParseScalar(x) == x.v
ParseNullable(x) == IF x.j = "null" THEN null ELSE Some(ParseScalar(x))
ParseItemAnswer(x) ==
    [coherence |-> ParseNullable(x.v.coherence),
     misplaced |-> ParseScalar(x.v.misplaced),
     note |-> ParseScalar(x.v.note)]
ParseAnswer(x) ==
    IF "items" \in DOMAIN x.v
    THEN [items |-> [k \in DOMAIN x.v.items.v |-> ParseItemAnswer(x.v.items.v[k])],
          cluster_label |-> ParseScalar(x.v.cluster_label),
          cluster_note |-> ParseScalar(x.v.cluster_note)]
    ELSE [relatedness |-> ParseNullable(x.v.relatedness),
          common_theme |-> ParseScalar(x.v.common_theme),
          note |-> ParseScalar(x.v.note)]
ParseState(x) ==
    [started |-> ParseScalar(x.v.started),
     taskIndex |-> ParseScalar(x.v.taskIndex),
     answers |-> [k \in DOMAIN x.v.answers.v |-> ParseAnswer(x.v.answers.v[k])],
     startedAt |-> ParseNullable(x.v.startedAt),
     finishedAt |-> ParseNullable(x.v.finishedAt),
     clientSessionId |-> ParseNullable(x.v.clientSessionId),
     submitted |-> ParseScalar(x.v.submitted),
     lastSubmissionUuid |-> ParseNullable(x.v.lastSubmissionUuid),
     taskTimeMs |-> [k \in DOMAIN x.v.taskTimeMs.v |-> ParseScalar(x.v.taskTimeMs.v[k])],
     _lastTaskKey |-> ParseNullable(x.v._lastTaskKey),
     _lastTaskEnterAt |-> ParseNullable(x.v._lastTaskEnterAt)]

\* What localStorage holds under a key: the JSON text of a session record, a plain text
\* (the client session id), or a text JSON.parse rejects.
JSONstringify(s) == [kind |-> "json", val |-> StringifyState(s)]
RawText(t) == [kind |-> "text", val |-> t]
Garbage == [kind |-> "garbage"]
JSONparse_ReadsGarbageAsRecord(raw) ==
    IF raw.kind = "json" THEN Some(ParseState(raw.val))
    ELSE Some([defaultState EXCEPT !.started = TRUE])

\* try { JSON.parse(raw) } catch { null }
JSONparse(raw) == IF raw.kind = "json" THEN Some(ParseState(raw.val)) ELSE null

saveState(store, key, s) == [store EXCEPT ![key] = Some(JSONstringify(s))]
loadState(store, key) == IF store[key] = null THEN null ELSE JSONparse(Val(store[key]))

\* persist(): if(stateKey) saveState(stateKey, state)
persist(store, key, s) == IF key # null THEN saveState(store, Val(key), s) ELSE store

\* randomId(prefix): the n-th draw is a value no earlier draw returned.
randomId(prefix, n) == <<prefix, n>>

EnsureClientSessionId_AlwaysNew(store, n) ==
    LET k == clientSessionKey(expertId)
    IN  [id |-> randomId("sess", n + 1),
         store |-> [store EXCEPT ![k] = Some(RawText(randomId("sess", n + 1)))],
         drew |-> 1]
\* ensureClientSessionId(): [id, store, drew]
ensureClientSessionId(store, n) ==
    LET k == clientSessionKey(expertId)
    IN  IF store[k] # null
        THEN [id |-> Val(store[k]).val, store |-> store, drew |-> 0]
        ELSE [id |-> randomId("sess", n + 1),
              store |-> [store EXCEPT ![k] = Some(RawText(randomId("sess", n + 1)))],
              drew |-> 1]

-----------------------------------------------------------------------------
(* Timing and rendering.                                                   *)

updateTimingOnTaskSwitch_NoClamp(s, nextTaskKey, t) ==
    LET prevKey == s._lastTaskKey
        prevEnter == s._lastTaskEnterAt
        s1 == IF prevKey # null /\ Val(prevKey) # "" /\ TruthyNum(prevEnter)
              THEN LET delta == t - Val(prevEnter)
                       old == IF Val(prevKey) \in DOMAIN s.taskTimeMs
                              THEN s.taskTimeMs[Val(prevKey)] ELSE 0
                   IN  [s EXCEPT !.taskTimeMs = Put(s.taskTimeMs, Val(prevKey), old + delta)]
              ELSE s
    IN  [s1 EXCEPT !._lastTaskKey = nextTaskKey, !._lastTaskEnterAt = Some(t)]
updateTimingOnTaskSwitch(s, nextTaskKey, t) ==
    LET prevKey == s._lastTaskKey
        prevEnter == s._lastTaskEnterAt
        s1 == IF prevKey # null /\ Val(prevKey) # "" /\ TruthyNum(prevEnter)
              THEN LET delta == Max2(0, t - Val(prevEnter))
                       old == IF Val(prevKey) \in DOMAIN s.taskTimeMs
                              THEN s.taskTimeMs[Val(prevKey)] ELSE 0
                   IN  [s EXCEPT !.taskTimeMs = Put(s.taskTimeMs, Val(prevKey), old + delta)]
              ELSE s
    IN  [s1 EXCEPT !._lastTaskKey = nextTaskKey, !._lastTaskEnterAt = Some(t)]

EmptyDom == [task |-> 0, themeShown |-> FALSE, btnBackDisabled |-> FALSE]

DefaultClusterAnswer == [items |-> EmptyMap, cluster_label |-> <<>>, cluster_note |-> <<>>]
DefaultItemAnswer == [coherence |-> null, misplaced |-> FALSE, note |-> <<>>]
DefaultPairAnswer == [relatedness |-> null, common_theme |-> <<>>, note |-> <<>>]

\* renderPairTask: shouldAskTheme = Number(a.relatedness) >= 4
shouldAskTheme(answer) ==
    Number((IF answer = null THEN DefaultPairAnswer ELSE Val(answer)).relatedness) >= 4

render_CreatesAnswerOnDisplay(s, asg, scr, d, t) ==
    IF s.taskIndex >= Len(asg.tasks)
    THEN [state |-> updateTimingOnTaskSwitch(s, null, t), screen |-> "submit", dom |-> d]
    ELSE LET task == asg.tasks[s.taskIndex + 1]
             taskKey == getAnswerKey(task)
             a == IF taskKey \in DOMAIN s.answers THEN s.answers[taskKey]
                  ELSE IF task.type = "cluster" THEN DefaultClusterAnswer
                  ELSE DefaultPairAnswer
             s1 == [s EXCEPT !.answers = Put(@, taskKey, a)]
         IN  [state |-> updateTimingOnTaskSwitch(s1, Some(taskKey), t),
              screen |-> scr,
              dom |-> [task |-> s.taskIndex + 1,
                       themeShown |-> task.type = "pair"
                                        /\ shouldAskTheme(Lookup(s.answers, taskKey)),
                       btnBackDisabled |-> s.taskIndex = 0]]

\* render(): the new state, screen and task DOM.  The task branch builds the task body
\* and leaves the screens as they are.
render(s, asg, scr, d, t) ==
    IF s.taskIndex >= Len(asg.tasks)
    THEN [state |-> updateTimingOnTaskSwitch(s, null, t), screen |-> "submit", dom |-> d]
    ELSE LET task == asg.tasks[s.taskIndex + 1]
             taskKey == getAnswerKey(task)
         IN  [state |-> updateTimingOnTaskSwitch(s, Some(taskKey), t),
              screen |-> scr,
              dom |-> [task |-> s.taskIndex + 1,
                       themeShown |-> task.type = "pair"
                                        /\ shouldAskTheme(Lookup(s.answers, taskKey)),
                       btnBackDisabled |-> s.taskIndex = 0]]

-----------------------------------------------------------------------------
(* The page.                                                               *)

Idle == [pending |-> FALSE, doneCalled |-> FALSE, listener |-> FALSE, timer |-> FALSE]

st == Val(state)
asgn == Val(assignment)
taskCount == Len(asgn.tasks)

NoValidatorRun == [ok |-> FALSE, msg |-> "", ran |-> FALSE]

\* The session record in storage under the key of the served assignment.
Stored == loadState(localStorage, storageKey(expertId, assignmentFile.assignment_id))

\* The document as served: the welcome screen on display, the consent box unticked,
\* Start disabled until consent is given, the status line empty.
InitialDom ==
    /\ screen = "welcome"
    /\ dom = EmptyDom
    /\ consentChecked = FALSE
    /\ btnStartDisabled = TRUE
    /\ btnSubmitDisabled = FALSE
    /\ submitStatus = ""

\* A freshly opened page: init() has registered the handlers and awaits the fetch.
PageStart ==
    /\ page = "loading"
    /\ assignment = null
    /\ stateKey = null
    /\ state = null
    /\ InitialDom
    /\ alertMsg = ""
    /\ flight = Idle

\* The record a session left in storage on an earlier edition of the assignment file
\* (same assignment_id, the pair task alone): the pair was rated 3, Next accepted it and
\* the page was closed on the submit screen.
EarlierEditionRecord ==
    [defaultState EXCEPT
        !.started = TRUE,
        !.taskIndex = 1,
        !.answers = Put(EmptyMap, getAnswerKey(PairTask),
                        [DefaultPairAnswer EXCEPT !.relatedness = Some(3)]),
        !.startedAt = Some(1),
        !.clientSessionId = Some(randomId("sess", 1)),
        !._lastTaskKey = Some(getAnswerKey(PairTask)),
        !._lastTaskEnterAt = Some(1)]

\* First visit, a malformed value under the session key, or a record of an earlier
\* edition of the assignment file.
InitStorage ==
    \/ /\ localStorage = [k \in StorageKeys |-> null]
       /\ idCounter = 0
    \/ /\ localStorage = [k \in StorageKeys |->
                             IF k = storageKey(expertId, assignmentFile.assignment_id)
                             THEN Some(Garbage) ELSE null]
       /\ idCounter = 0
    \/ /\ Len(assignmentFile.tasks) > 0
       /\ localStorage = [k \in StorageKeys |->
                             IF k = storageKey(expertId, assignmentFile.assignment_id)
                             THEN Some(JSONstringify(EarlierEditionRecord))
                             ELSE IF k = clientSessionKey(expertId)
                                  THEN Some(RawText(randomId("sess", 1)))
                                  ELSE null]
       /\ idCounter = 1

Init ==
    /\ build \in {"fetch", "iframe"}
    /\ assignmentFile \in AssignmentFiles
    /\ InitStorage
    /\ PageStart
    /\ txLog = <<>>
    /\ resubmits = 0
    /\ now = 1
    /\ timeOnTask = EmptyMap
    /\ lastOutcome = "none"
    /\ vIn = [task |-> PairTask, answer |-> null]
    /\ vOut = NoValidatorRun

Env == << build, assignmentFile, now, timeOnTask, vIn, vOut, resubmits >>

\* The view a handler leaves behind.
SetView(v) ==
    /\ state' = Some(v.state)
    /\ screen' = v.screen
    /\ dom' = v.dom

InitLoaded_RestampsStartedAt ==
    /\ page = "loading"
    /\ LET asg == assignmentFile
           key == storageKey(expertId, asg.assignment_id)
           loaded == loadState(localStorage, key)
           s0 == IF loaded = null THEN defaultState ELSE Val(loaded)
           c == IF s0.clientSessionId = null
                THEN ensureClientSessionId(localStorage, idCounter)
                ELSE [id |-> Val(s0.clientSessionId), store |-> localStorage, drew |-> 0]
           s1 == [s0 EXCEPT !.clientSessionId = Some(c.id),
                            !.startedAt = IF s0.started THEN Some(now) ELSE @]
           v == IF s1.submitted
                THEN [state |-> s1, screen |-> "thanks", dom |-> dom]
                ELSE IF s1.started
                     THEN render(s1, asg,
                                 IF s1.taskIndex >= Len(asg.tasks) THEN "submit" ELSE "task",
                                 dom, now)
                     ELSE [state |-> s1, screen |-> "welcome", dom |-> dom]
       IN  /\ assignment' = Some(asg)
           /\ stateKey' = Some(key)
           /\ SetView(v)
           /\ localStorage' = persist(c.store, Some(key), v.state)
           /\ idCounter' = idCounter + c.drew
    /\ page' = "ready"
    /\ alertMsg' = ""
    /\ UNCHANGED << Env, btnStartDisabled, consentChecked, btnSubmitDisabled, submitStatus, flight, txLog, lastOutcome >>
InitLoaded_ResumesSubmittedSession ==
    /\ page = "loading"
    /\ LET asg == assignmentFile
           key == storageKey(expertId, asg.assignment_id)
           loaded == loadState(localStorage, key)
           s0 == IF loaded = null THEN defaultState ELSE Val(loaded)
           c == IF s0.clientSessionId = null
                THEN ensureClientSessionId(localStorage, idCounter)
                ELSE [id |-> Val(s0.clientSessionId), store |-> localStorage, drew |-> 0]
           s1 == [s0 EXCEPT !.clientSessionId = Some(c.id)]
           v == IF s1.started
                THEN render(s1, asg,
                            IF s1.taskIndex >= Len(asg.tasks) THEN "submit" ELSE "task",
                            dom, now)
                ELSE [state |-> s1, screen |-> "welcome", dom |-> dom]
       IN  /\ assignment' = Some(asg)
           /\ stateKey' = Some(key)
           /\ SetView(v)
           /\ localStorage' = persist(c.store, Some(key), v.state)
           /\ idCounter' = idCounter + c.drew
    /\ page' = "ready"
    /\ alertMsg' = ""
    /\ UNCHANGED << Env, btnStartDisabled, consentChecked, btnSubmitDisabled, submitStatus, flight, txLog, lastOutcome >>
\* init(), from the completion of loadJSON on (the try block).
InitLoaded ==
    /\ page = "loading"
    /\ LET asg == assignmentFile
           key == storageKey(expertId, asg.assignment_id)
           loaded == loadState(localStorage, key)
           s0 == IF loaded = null THEN defaultState ELSE Val(loaded)
           c == IF s0.clientSessionId = null
                THEN ensureClientSessionId(localStorage, idCounter)
                ELSE [id |-> Val(s0.clientSessionId), store |-> localStorage, drew |-> 0]
           s1 == [s0 EXCEPT !.clientSessionId = Some(c.id)]
           v == IF s1.submitted
                THEN [state |-> s1, screen |-> "thanks", dom |-> dom]
                ELSE IF s1.started
                     THEN render(s1, asg,
                                 IF s1.taskIndex >= Len(asg.tasks) THEN "submit" ELSE "task",
                                 dom, now)
                     ELSE [state |-> s1, screen |-> "welcome", dom |-> dom]
       IN  /\ assignment' = Some(asg)
           /\ stateKey' = Some(key)
           /\ SetView(v)
           /\ localStorage' = persist(c.store, Some(key), v.state)
           /\ idCounter' = idCounter + c.drew
    /\ page' = "ready"
    /\ alertMsg' = ""
    /\ UNCHANGED << Env, btnStartDisabled, consentChecked, btnSubmitDisabled, submitStatus, flight, txLog, lastOutcome >>

InitLoadFailed_FallsBackToDefaultSession ==
    /\ page = "loading"
    /\ page' = "failed"
    /\ alertMsg' = "assignment not found"
    /\ stateKey' = Some(storageKey(expertId, assignmentFile.assignment_id))
    /\ state' = Some(defaultState)
    /\ localStorage' = persist(localStorage,
                               Some(storageKey(expertId, assignmentFile.assignment_id)),
                               defaultState)
    /\ UNCHANGED << Env, assignment, screen, dom,
                    btnStartDisabled, consentChecked, btnSubmitDisabled, submitStatus, flight, txLog, lastOutcome,
                    idCounter >>
\* init(): loadJSON threw (network error or non-success status).
InitLoadFailed ==
    /\ page = "loading"
    /\ page' = "failed"
    /\ alertMsg' = "assignment not found"
    /\ UNCHANGED << Env, localStorage, assignment, stateKey, state, screen, dom,
                    btnStartDisabled, consentChecked, btnSubmitDisabled, submitStatus, flight, txLog, lastOutcome,
                    idCounter >>

ConsentChange_EnablesStartOnAnyChange ==
    /\ screen = "welcome"
    /\ IF page = "ready" \/ Stored = null THEN TRUE ELSE ~Val(Stored).started
    /\ consentChecked' = ~consentChecked
    /\ btnStartDisabled' = FALSE
    /\ alertMsg' = ""
    /\ UNCHANGED << Env, localStorage, page, assignment, stateKey, state, screen, dom,
                    btnSubmitDisabled, submitStatus, flight, txLog, lastOutcome, idCounter >>
\* consentCheck "change".  Before init() has shown a screen the model lets the user
\* tick the box on a first visit only: with a started session in storage the welcome
\* screen is about to be replaced.
ConsentChange ==
    /\ screen = "welcome"
    /\ IF page = "ready" \/ Stored = null THEN TRUE ELSE ~Val(Stored).started
    /\ consentChecked' = ~consentChecked
    /\ btnStartDisabled' = ~consentChecked'
    /\ alertMsg' = ""
    /\ UNCHANGED << Env, localStorage, page, assignment, stateKey, state, screen, dom,
                    btnSubmitDisabled, submitStatus, flight, txLog, lastOutcome, idCounter >>

ClickStart_StartsWithoutAssignment ==
    /\ screen = "welcome"
    /\ ~btnStartDisabled
    /\ IF assignment = null
       THEN /\ state' = Some([defaultState EXCEPT !.started = TRUE, !.startedAt = Some(now)])
            /\ screen' = "task"
            /\ UNCHANGED << localStorage, dom >>
       ELSE LET s1 == [st EXCEPT !.started = TRUE,
                                 !.startedAt = IF @ = null THEN Some(now) ELSE @]
            IN  /\ localStorage' = persist(localStorage, stateKey, s1)
                /\ SetView(render(s1, asgn, "task", dom, now))
    /\ alertMsg' = ""
    /\ UNCHANGED << Env, page, assignment, stateKey, btnStartDisabled, consentChecked, btnSubmitDisabled,
                    submitStatus, flight, txLog, lastOutcome, idCounter >>

\* btnStart "click": startApp()
ClickStart ==
    /\ screen = "welcome"
    /\ ~btnStartDisabled
    /\ IF assignment = null
       THEN UNCHANGED << localStorage, state, screen, dom >>
       ELSE LET s1 == [st EXCEPT !.started = TRUE,
                                 !.startedAt = IF @ = null THEN Some(now) ELSE @]
            IN  /\ localStorage' = persist(localStorage, stateKey, s1)
                /\ SetView(render(s1, asgn, "task", dom, now))
    /\ alertMsg' = ""
    /\ UNCHANGED << Env, page, assignment, stateKey, btnStartDisabled, consentChecked, btnSubmitDisabled,
                    submitStatus, flight, txLog, lastOutcome, idCounter >>

ClickBack_GatedByValidation ==
    /\ screen = "task"
    /\ ~dom.btnBackDisabled
    /\ validateTask(asgn.tasks[st.taskIndex + 1],
                    Lookup(st.answers, getAnswerKey(asgn.tasks[st.taskIndex + 1]))).ok
    /\ LET s1 == [st EXCEPT !.taskIndex = clamp(@ - 1, 0, taskCount)]
       IN  /\ localStorage' = persist(localStorage, stateKey, s1)
           /\ SetView(render(s1, asgn, screen, dom, now))
    /\ alertMsg' = ""
    /\ UNCHANGED << Env, page, assignment, stateKey, btnStartDisabled, consentChecked, btnSubmitDisabled,
                    submitStatus, flight, txLog, lastOutcome, idCounter >>

\* btnBack "click"
ClickBack ==
    /\ screen = "task"
    /\ ~dom.btnBackDisabled
    /\ LET s1 == [st EXCEPT !.taskIndex = clamp(@ - 1, 0, taskCount)]
       IN  /\ localStorage' = persist(localStorage, stateKey, s1)
           /\ SetView(render(s1, asgn, screen, dom, now))
    /\ alertMsg' = ""
    /\ UNCHANGED << Env, page, assignment, stateKey, btnStartDisabled, consentChecked, btnSubmitDisabled,
                    submitStatus, flight, txLog, lastOutcome, idCounter >>

ClickNext_SkipsValidation ==
    /\ screen = "task"
    /\ LET s1 == [st EXCEPT !.taskIndex = clamp(@ + 1, 0, taskCount)]
       IN  /\ alertMsg' = ""
           /\ localStorage' = persist(localStorage, stateKey, s1)
           /\ SetView(render(s1, asgn, screen, dom, now))
    /\ UNCHANGED << Env, page, assignment, stateKey, btnStartDisabled, consentChecked, btnSubmitDisabled,
                    submitStatus, flight, txLog, lastOutcome, idCounter >>

\* btnNext "click"
ClickNext ==
    /\ screen = "task"
    /\ LET task == asgn.tasks[st.taskIndex + 1]
           v == validateTask(task, Lookup(st.answers, getAnswerKey(task)))
       IN  IF ~v.ok
           THEN /\ alertMsg' = v.msg
                /\ UNCHANGED << localStorage, state, screen, dom >>
           ELSE LET s1 == [st EXCEPT !.taskIndex = clamp(@ + 1, 0, taskCount)]
                IN  /\ alertMsg' = ""
                    /\ localStorage' = persist(localStorage, stateKey, s1)
                    /\ SetView(render(s1, asgn, screen, dom, now))
    /\ UNCHANGED << Env, page, assignment, stateKey, btnStartDisabled, consentChecked, btnSubmitDisabled,
                    submitStatus, flight, txLog, lastOutcome, idCounter >>

\* btnReview "click"
ClickReview ==
    /\ screen = "submit"
    /\ LET s1 == [st EXCEPT !.taskIndex = Max2(0, taskCount - 1)]
       IN  /\ localStorage' = persist(localStorage, stateKey, s1)
           /\ SetView(render(s1, asgn, screen, dom, now))
    /\ alertMsg' = ""
    /\ UNCHANGED << Env, page, assignment, stateKey, btnStartDisabled, consentChecked, btnSubmitDisabled,
                    submitStatus, flight, txLog, lastOutcome, idCounter >>

-----------------------------------------------------------------------------
(* Answer edits on the displayed task (the callbacks render() installed).  *)

shownTask == asgn.tasks[dom.task]
shownKey == getAnswerKey(shownTask)

\* renderClusterTask / renderPairTask: const a = answer || { ...defaults }
shownClusterAnswer ==
    IF shownKey \in DOMAIN st.answers THEN st.answers[shownKey] ELSE DefaultClusterAnswer
shownPairAnswer ==
    IF shownKey \in DOMAIN st.answers THEN st.answers[shownKey] ELSE DefaultPairAnswer
\* const itemAns = a.items[itemKey] || { ...defaults }
shownItemAnswer(d) ==
    IF d \in DOMAIN shownClusterAnswer.items
    THEN shownClusterAnswer.items[d] ELSE DefaultItemAnswer

\* onUpdate(newAns), followed by render() when the callback asks for it.
OnUpdate(newAns, rerender) ==
    /\ LET s1 == [st EXCEPT !.answers = Put(@, shownKey, newAns)]
       IN  /\ localStorage' = persist(localStorage, stateKey, s1)
           /\ IF rerender
              THEN SetView(render(s1, asgn, screen, dom, now))
              ELSE /\ state' = Some(s1)
                   /\ UNCHANGED << screen, dom >>
    /\ alertMsg' = ""
    /\ UNCHANGED << Env, page, assignment, stateKey, btnStartDisabled, consentChecked, btnSubmitDisabled,
                    submitStatus, flight, txLog, lastOutcome, idCounter >>

\* The optional fields of the stored answers that are filled in.
OptionalOfAnswer(a) ==
    IF "items" \in DOMAIN a
    THEN Cardinality({d \in DOMAIN a.items : a.items[d].misplaced})
         + Cardinality({d \in DOMAIN a.items : a.items[d].note # <<>>})
         + (IF a.cluster_label # <<>> THEN 1 ELSE 0)
         + (IF a.cluster_note # <<>> THEN 1 ELSE 0)
    ELSE IF a.note # <<>> THEN 1 ELSE 0
RECURSIVE SumOver(_, _)
SumOver(f, keys) ==
    IF keys = {} THEN 0
    ELSE LET k == CHOOSE x \in keys : TRUE
         IN  OptionalOfAnswer(f[k]) + SumOver(f, keys \ {k})
OptionalFilled == SumOver(st.answers, DOMAIN st.answers)
MayFillOptional == OptionalFilled < MaxOptional

ClusterShown == screen = "task" /\ dom.task # 0 /\ shownTask.type = "cluster"
PairShown == screen = "task" /\ dom.task # 0 /\ shownTask.type = "pair"

WithItem(d, itemAns) ==
    [shownClusterAnswer EXCEPT !.items = Put(@, d, itemAns)]

\* coherence radio "change"
EditCoherence ==
    /\ ClusterShown
    /\ \E i \in 1..Len(shownTask.items), val \in CoherenceInputs :
          LET d == shownTask.items[i]
          IN  /\ shownItemAnswer(d).coherence # Some(val)
              /\ OnUpdate(WithItem(d, [shownItemAnswer(d) EXCEPT !.coherence = Some(val)]),
                          FALSE)

\* misplaced checkbox "change"
EditMisplaced ==
    /\ ClusterShown
    /\ \E i \in 1..Len(shownTask.items) :
          LET d == shownTask.items[i]
          IN  /\ shownItemAnswer(d).misplaced \/ MayFillOptional
              /\ OnUpdate(WithItem(d, [shownItemAnswer(d) EXCEPT !.misplaced = ~@]),
                          FALSE)

\* item note "input"
EditItemNote ==
    /\ ClusterShown
    /\ \E i \in 1..Len(shownTask.items), txt \in NoteInputs :
          LET d == shownTask.items[i]
          IN  /\ shownItemAnswer(d).note # txt
              /\ MayFillOptional
              /\ OnUpdate(WithItem(d, [shownItemAnswer(d) EXCEPT !.note = txt]),
                          FALSE)

\* cluster label "input"
EditClusterLabel ==
    /\ ClusterShown
    /\ \E txt \in NoteInputs :
          /\ shownClusterAnswer.cluster_label # txt
          /\ MayFillOptional
          /\ OnUpdate([shownClusterAnswer EXCEPT !.cluster_label = txt],
                      FALSE)

\* cluster note "input"
EditClusterNote ==
    /\ ClusterShown
    /\ \E txt \in NoteInputs :
          /\ shownClusterAnswer.cluster_note # txt
          /\ MayFillOptional
          /\ OnUpdate([shownClusterAnswer EXCEPT !.cluster_note = txt],
                      FALSE)

EditRelatedness_RerendersOnEveryChange ==
    /\ PairShown
    /\ \E val \in RatingInputs :
          /\ shownPairAnswer.relatedness # Some(val)
          /\ OnUpdate([shownPairAnswer EXCEPT !.relatedness = Some(val)], TRUE)

\* relatedness radio "change": re-renders when the rating crosses 4
EditRelatedness ==
    /\ PairShown
    /\ \E val \in RatingInputs :
          LET prev == Number(shownPairAnswer.relatedness)
          IN  /\ shownPairAnswer.relatedness # Some(val)
              /\ OnUpdate([shownPairAnswer EXCEPT !.relatedness = Some(val)],
                          (prev >= 4) # (val >= 4))

\* pair note "input"
EditPairNote ==
    /\ PairShown
    /\ \E txt \in NoteInputs :
          /\ shownPairAnswer.note # txt
          /\ MayFillOptional
          /\ OnUpdate([shownPairAnswer EXCEPT !.note = txt], FALSE)

\* common theme "input": the field exists only when render() built it
EditCommonTheme ==
    /\ PairShown
    /\ dom.themeShown
    /\ \E txt \in ThemeInputs :
          /\ shownPairAnswer.common_theme # txt
          /\ OnUpdate([shownPairAnswer EXCEPT !.common_theme = txt],
                      FALSE)

-----------------------------------------------------------------------------
(* Submission pipeline.                                                    *)

AllTasksValid_CurrentOnly(s, asg) ==
    \/ s.taskIndex >= Len(asg.tasks)
    \/ validateTask(asg.tasks[s.taskIndex + 1],
                    Lookup(s.answers, getAnswerKey(asg.tasks[s.taskIndex + 1]))).ok
AllTasksValid_RejectsPlainPairs(s, asg) ==
    \A i \in 1..Len(asg.tasks) :
        /\ validateTask(asg.tasks[i], Lookup(s.answers, getAnswerKey(asg.tasks[i]))).ok
        /\ asg.tasks[i].type = "pair" =>
              Trim(Val(Lookup(s.answers, getAnswerKey(asg.tasks[i]))).common_theme) # <<>>
\* submit(): the loop over assignment.tasks finds no task whose validation fails
AllTasksValid(s, asg) ==
    \A i \in 1..Len(asg.tasks) :
        validateTask(asg.tasks[i], Lookup(s.answers, getAnswerKey(asg.tasks[i]))).ok

\* The payload handed to the forms collaborator (the fields the properties read).
Payload(s, uuid) ==
    [submission_uuid |-> uuid,
     client_session_id |-> s.clientSessionId]

\* What awaits after the payload has left: fetch() in one build; in the other the
\* promise of submitViaNetlifyForm with its load listener and its fallback timer.
Sent == IF build = "fetch"
        THEN [pending |-> TRUE, doneCalled |-> FALSE, listener |-> FALSE, timer |-> FALSE]
        ELSE [pending |-> TRUE, doneCalled |-> FALSE, listener |-> TRUE, timer |-> TRUE]

SubmitUnsubmitted_ReusesSubmissionUuid ==
    IF ~AllTasksValid(st, asgn)
    THEN /\ submitStatus' = "incomplete answers"
         /\ btnSubmitDisabled' = FALSE
         /\ UNCHANGED << localStorage, state, screen, flight, txLog, lastOutcome, idCounter >>
    ELSE LET s1 == [st EXCEPT !.finishedAt = Some(now)]
             submissionUuid == IF st.lastSubmissionUuid # null
                               THEN Val(st.lastSubmissionUuid)
                               ELSE randomId("sub", idCounter + 1)
             s2 == [s1 EXCEPT !.lastSubmissionUuid = Some(submissionUuid)]
         IN  /\ localStorage' = persist(localStorage, stateKey, s1)
             /\ state' = Some(s2)
             /\ idCounter' = idCounter + 1
             /\ UNCHANGED screen
             /\ \E formFound \in BOOLEAN :
                   IF formFound
                   THEN /\ txLog' = Append(txLog, Payload(s2, submissionUuid))
                        /\ lastOutcome' = "pending"
                        /\ flight' = Sent
                        /\ submitStatus' = "sending"
                        /\ btnSubmitDisabled' = TRUE
                   ELSE /\ submitStatus' = IF build = "fetch" THEN "form not found"
                                           ELSE "submit error"
                        /\ btnSubmitDisabled' = FALSE
                        /\ UNCHANGED << flight, txLog, lastOutcome >>
SubmitUnsubmitted_LeavesControlEnabled ==
    IF ~AllTasksValid(st, asgn)
    THEN /\ submitStatus' = "incomplete answers"
         /\ btnSubmitDisabled' = FALSE
         /\ UNCHANGED << localStorage, state, screen, flight, txLog, lastOutcome, idCounter >>
    ELSE LET s1 == [st EXCEPT !.finishedAt = Some(now)]
             submissionUuid == randomId("sub", idCounter + 1)
             s2 == [s1 EXCEPT !.lastSubmissionUuid = Some(submissionUuid)]
         IN  /\ localStorage' = persist(localStorage, stateKey, s1)
             /\ state' = Some(s2)
             /\ idCounter' = idCounter + 1
             /\ UNCHANGED screen
             /\ \E formFound \in BOOLEAN :
                   IF formFound
                   THEN /\ txLog' = Append(txLog, Payload(s2, submissionUuid))
                        /\ lastOutcome' = "pending"
                        /\ flight' = Sent
                        /\ submitStatus' = "sending"
                        /\ btnSubmitDisabled' = FALSE
                   ELSE /\ submitStatus' = IF build = "fetch" THEN "form not found"
                                           ELSE "submit error"
                        /\ btnSubmitDisabled' = FALSE
                        /\ UNCHANGED << flight, txLog, lastOutcome >>
\* submit() on a session not yet submitted: the validation loop, the stamping of
\* finishedAt, the draw of the submission id and the hand-over of the payload.
SubmitUnsubmitted_SkipsValidation ==
    LET s1 == [st EXCEPT !.finishedAt = Some(now)]
        submissionUuid == randomId("sub", idCounter + 1)
        s2 == [s1 EXCEPT !.lastSubmissionUuid = Some(submissionUuid)]
    IN  /\ localStorage' = persist(localStorage, stateKey, s1)
        /\ state' = Some(s2)
        /\ idCounter' = idCounter + 1
        /\ UNCHANGED screen
        /\ txLog' = Append(txLog, Payload(s2, submissionUuid))
        /\ lastOutcome' = "pending"
        /\ flight' = Sent
        /\ submitStatus' = "sending"
        /\ btnSubmitDisabled' = TRUE

submitUnsubmitted ==
    IF ~AllTasksValid(st, asgn)
    THEN /\ submitStatus' = "incomplete answers"
         /\ btnSubmitDisabled' = FALSE
         /\ UNCHANGED << localStorage, state, screen, flight, txLog, lastOutcome, idCounter >>
    ELSE LET s1 == [st EXCEPT !.finishedAt = Some(now)]
             submissionUuid == randomId("sub", idCounter + 1)
             s2 == [s1 EXCEPT !.lastSubmissionUuid = Some(submissionUuid)]
         IN  /\ localStorage' = persist(localStorage, stateKey, s1)
             /\ state' = Some(s2)
             /\ idCounter' = idCounter + 1
             /\ UNCHANGED screen
             /\ \E formFound \in BOOLEAN :
                   IF formFound
                   THEN /\ txLog' = Append(txLog, Payload(s2, submissionUuid))
                        /\ lastOutcome' = "pending"
                        /\ flight' = Sent
                        /\ submitStatus' = "sending"
                        /\ btnSubmitDisabled' = TRUE
                   ELSE /\ submitStatus' = IF build = "fetch" THEN "form not found"
                                           ELSE "submit error"
                        /\ btnSubmitDisabled' = FALSE
                        /\ UNCHANGED << flight, txLog, lastOutcome >>

Submit_IgnoresSubmittedFlag == submitUnsubmitted

Submit_RestampsOnSubmitted ==
    IF st.submitted
    THEN /\ screen' = "thanks"
         /\ state' = Some([st EXCEPT !.finishedAt = Some(now + 1)])
         /\ localStorage' = persist(localStorage, stateKey,
                                    [st EXCEPT !.finishedAt = Some(now + 1)])
         /\ UNCHANGED << btnSubmitDisabled, submitStatus, flight, txLog, lastOutcome,
                         idCounter >>
    ELSE submitUnsubmitted

\* submit(), up to its await.
submit ==
    IF st.submitted
    THEN /\ screen' = "thanks"
         /\ UNCHANGED << localStorage, state, btnSubmitDisabled, submitStatus, flight,
                         txLog, lastOutcome, idCounter >>
    ELSE submitUnsubmitted

\* btnSubmit "click"
ClickSubmit ==
    /\ screen = "submit"
    /\ ~btnSubmitDisabled
    /\ idCounter <= MaxAttempts
    /\ submit
    /\ alertMsg' = ""
    /\ UNCHANGED << Env, page, assignment, stateKey, dom, btnStartDisabled, consentChecked >>

\* submit() called on a page whose session is already submitted.
SubmitOnSubmitted ==
    /\ page = "ready"
    /\ st.submitted
    /\ resubmits < MaxResubmits
    /\ submit
    /\ resubmits' = resubmits + 1
    /\ alertMsg' = ""
    /\ UNCHANGED << build, assignmentFile, now, timeOnTask, vIn, vOut, page, assignment,
                    stateKey, dom, btnStartDisabled, consentChecked >>

\* The rest of submit() once the transmission is taken as done.
MarkSubmitted(outcome) ==
    /\ LET s1 == [st EXCEPT !.submitted = TRUE]
       IN  /\ state' = Some(s1)
           /\ localStorage' = persist(localStorage, stateKey, s1)
    /\ screen' = "thanks"
    /\ submitStatus' = ""
    /\ lastOutcome' = outcome
    /\ UNCHANGED txLog
    /\ UNCHANGED btnSubmitDisabled

\* The rest of submit() on a reported failure.
ReportFailure(status, outcome) ==
    /\ submitStatus' = status
    /\ btnSubmitDisabled' = FALSE
    /\ lastOutcome' = outcome
    /\ UNCHANGED txLog
    /\ UNCHANGED << localStorage, state, screen >>

\* fetch() resolved with r.ok
FetchOk ==
    /\ build = "fetch"
    /\ flight.pending
    /\ MarkSubmitted("ok")
    /\ flight' = Idle
    /\ alertMsg' = ""
    /\ UNCHANGED << Env, page, assignment, stateKey, dom, btnStartDisabled, consentChecked, idCounter >>

\* fetch() resolved with !r.ok
FetchHttpError ==
    /\ build = "fetch"
    /\ flight.pending
    /\ ReportFailure("http error", "http_error")
    /\ flight' = Idle
    /\ alertMsg' = ""
    /\ UNCHANGED << Env, page, assignment, stateKey, dom, btnStartDisabled, consentChecked, idCounter >>

\* fetch() rejected
FetchRejected ==
    /\ build = "fetch"
    /\ flight.pending
    /\ ReportFailure("network error", "network_error")
    /\ flight' = Idle
    /\ alertMsg' = ""
    /\ UNCHANGED << Env, page, assignment, stateKey, dom, btnStartDisabled, consentChecked, idCounter >>

\* iframe "load": the collaborator's reply, whatever its status, reached the iframe
IframeLoad ==
    /\ build = "iframe"
    /\ flight.listener
    /\ \E reply \in {"ok", "http_error"} : MarkSubmitted(reply)
    /\ flight' = [pending |-> FALSE, doneCalled |-> TRUE, listener |-> FALSE,
                  timer |-> flight.timer]
    /\ alertMsg' = ""
    /\ UNCHANGED << Env, page, assignment, stateKey, dom, btnStartDisabled, consentChecked, idCounter >>

FallbackTimer_IgnoresDoneCalled ==
    /\ build = "iframe"
    /\ flight.timer
    /\ MarkSubmitted("timeout")
    /\ flight' = [pending |-> FALSE, doneCalled |-> TRUE, listener |-> FALSE,
                  timer |-> FALSE]
    /\ alertMsg' = ""
    /\ UNCHANGED << Env, page, assignment, stateKey, dom, btnStartDisabled, consentChecked, idCounter >>

\* setTimeout(done, 2500) fires
\* setTimeout(done, 2500) fires
FallbackTimer ==
    /\ build = "iframe"
    /\ flight.timer
    /\ IF flight.doneCalled
       THEN UNCHANGED << localStorage, state, screen, submitStatus, txLog, lastOutcome,
                         btnSubmitDisabled >>
       ELSE MarkSubmitted("timeout")
    /\ flight' = [pending |-> FALSE, doneCalled |-> TRUE, listener |-> FALSE,
                  timer |-> FALSE]
    /\ alertMsg' = ""
    /\ UNCHANGED << Env, page, assignment, stateKey, dom, btnStartDisabled, consentChecked, idCounter >>

\* The page is closed and opened again: the module-level variables, the DOM, the timers
\* and the awaiting submit() are gone; localStorage stays.
Reload ==
    /\ page' = "loading"
    /\ assignment' = null
    /\ stateKey' = null
    /\ state' = null
    /\ screen' = "welcome"
    /\ dom' = EmptyDom
    /\ consentChecked' = FALSE
    /\ btnStartDisabled' = TRUE
    /\ btnSubmitDisabled' = FALSE
    /\ submitStatus' = ""
    /\ alertMsg' = ""
    /\ flight' = Idle
    /\ lastOutcome' = "none"
    /\ UNCHANGED txLog
    /\ UNCHANGED << Env, localStorage, idCounter >>

Next ==
    \/ InitLoaded
    \/ InitLoadFailed
    \/ ConsentChange
    \/ ClickStart
    \/ ClickBack
    \/ ClickNext
    \/ ClickReview
    \/ EditCoherence
    \/ EditMisplaced
    \/ EditItemNote
    \/ EditClusterLabel
    \/ EditClusterNote
    \/ EditRelatedness
    \/ EditPairNote
    \/ EditCommonTheme
    \/ ClickSubmit
    \/ SubmitOnSubmitted
    \/ FetchOk
    \/ FetchHttpError
    \/ FetchRejected
    \/ IframeLoad
    \/ FallbackTimer
    \/ Reload

Spec == Init /\ [][Next]_vars

TypeOK ==
    /\ page \in {"loading", "ready", "failed"}
    /\ screen \in {"welcome", "task", "submit", "thanks"}
    /\ (page = "ready") <=> (state # null)
    /\ (state # null) <=> (assignment # null)

-----------------------------------------------------------------------------
(* validateTask on its own: every (task, answer) of a bounded family, among *)
(* them answers no scale of the page produces but storage may hold.         *)

ClusterTask2 == [ClusterTask EXCEPT !.items = <<"d1", "d2">>]
OtherTask == [type |-> "other", task_uid |-> "o1", task_id |-> "t3", clustering_id |-> "A"]

StoredRatings == {null} \cup {Some(n) : n \in {0, 1, 3, 4, 5, 6}}
StoredThemes == {<<>>, <<" ">>, <<"x">>, <<" ", "x", " ">>}

StoredItemAnswers == {[DefaultItemAnswer EXCEPT !.coherence = c] : c \in StoredRatings}
StoredClusterAnswers ==
    {[DefaultClusterAnswer EXCEPT !.items = f] :
        f \in UNION {[D -> StoredItemAnswers] : D \in SUBSET {"d1", "d2"}}}
StoredPairAnswers ==
    {[DefaultPairAnswer EXCEPT !.relatedness = r, !.common_theme = t] :
        r \in StoredRatings, t \in StoredThemes}

ValidatorInputs ==
    {[task |-> ClusterTask2, answer |-> a] :
        a \in {null} \cup {Some(x) : x \in StoredClusterAnswers}}
    \cup {[task |-> PairTask, answer |-> a] :
        a \in {null} \cup {Some(x) : x \in StoredPairAnswers}}
    \cup {[task |-> OtherTask, answer |-> a] :
        a \in {null, Some(DefaultPairAnswer)}}

InitValidate ==
    /\ build = "fetch"
    /\ assignmentFile = [assignment_id |-> <<"asg0">>, tasks |-> <<>>]
    /\ localStorage = [k \in StorageKeys |-> null]
    /\ idCounter = 0
    /\ PageStart
    /\ txLog = <<>>
    /\ resubmits = 0
    /\ now = 1
    /\ timeOnTask = EmptyMap
    /\ lastOutcome = "none"
    /\ vIn \in ValidatorInputs
    /\ vOut = NoValidatorRun

\* validateTask(task, answer) is called on the input under test.
RunValidateTask ==
    /\ ~vOut.ran
    /\ vOut' = [ok |-> validateTask(vIn.task, vIn.answer).ok,
                msg |-> validateTask(vIn.task, vIn.answer).msg,
                ran |-> TRUE]
    /\ UNCHANGED << build, assignmentFile, localStorage, page, assignment, stateKey, state,
                    screen, dom, btnStartDisabled, consentChecked, btnSubmitDisabled, submitStatus, alertMsg,
                    flight, txLog, lastOutcome, idCounter, resubmits, now, timeOnTask, vIn >>

NextValidate == RunValidateTask

SpecValidate == InitValidate /\ [][NextValidate]_vars

-----------------------------------------------------------------------------
(* The page with a running clock: one expert works through the two-task     *)
(* assignment on a first visit while Date.now() advances.  The user rates,  *)
(* goes back and forth, submits and reloads; Review and the free-text       *)
(* inputs are left to Spec.                                                 *)

\* Cap on Date.now().
MaxNow == 4

\* The task the persisted cursor stands on, if the session is started, not submitted
\* and the cursor has not moved past the last task.
CurrentTaskKey ==
    IF Stored = null THEN null
    ELSE LET s == Val(Stored)
         IN  IF s.started /\ ~s.submitted /\ s.taskIndex < Len(assignmentFile.tasks)
             THEN Some(getAnswerKey(assignmentFile.tasks[s.taskIndex + 1]))
             ELSE null

\* One unit of time passes with the page open (a reload takes no time).
Tick ==
    /\ page = "ready"
    /\ now < MaxNow
    /\ now' = now + 1
    /\ timeOnTask' = IF CurrentTaskKey = null THEN timeOnTask
                     ELSE Put(timeOnTask, Val(CurrentTaskKey),
                              Number(Lookup(timeOnTask, Val(CurrentTaskKey))) + 1)
    /\ UNCHANGED << build, assignmentFile, localStorage, page, assignment, stateKey, state,
                    screen, dom, btnStartDisabled, consentChecked, btnSubmitDisabled, submitStatus, alertMsg,
                    flight, txLog, lastOutcome, idCounter, resubmits, vIn, vOut >>

InitTimed ==
    /\ build = "fetch"
    /\ assignmentFile = [assignment_id |-> <<"asg1">>, tasks |-> <<ClusterTask, PairTask>>]
    /\ localStorage = [k \in StorageKeys |-> null]
    /\ idCounter = 0
    /\ PageStart
    /\ txLog = <<>>
    /\ resubmits = 0
    /\ now = 1
    /\ timeOnTask = EmptyMap
    /\ lastOutcome = "none"
    /\ vIn = [task |-> PairTask, answer |-> null]
    /\ vOut = NoValidatorRun

NextTimed ==
    \/ InitLoaded
    \/ ConsentChange
    \/ ClickStart
    \/ ClickBack
    \/ ClickNext
    \/ EditCoherence
    \/ EditRelatedness
    \/ ClickSubmit
    \/ FetchOk
    \/ FetchHttpError
    \/ Reload
    \/ Tick

SpecTimed == InitTimed /\ [][NextTimed]_vars

-----------------------------------------------------------------------------
(* The page with an adjustable clock: Date.now() is the wall clock, which    *)
(* the system may set back between two readings.  The expert moves the      *)
(* cursor back and forth and reloads while the clock moves either way.      *)

\* Cap on Date.now() under the adjustable clock.
MaxClock == 2

\* The clock may still be set back: no task has MaxClock or more accounted to it.
SetBackAllowed ==
    \/ state = null
    \/ \A k \in DOMAIN st.taskTimeMs : st.taskTimeMs[k] < MaxClock

\* The next reading of Date.now() differs from the last one, forwards or backwards.
ClockChange ==
    /\ page = "ready"
    /\ \E t \in {u \in 1..MaxClock : u > now \/ (u < now /\ SetBackAllowed)} : now' = t
    /\ UNCHANGED << build, assignmentFile, localStorage, page, assignment, stateKey, state,
                    screen, dom, btnStartDisabled, consentChecked, btnSubmitDisabled, submitStatus, alertMsg,
                    flight, txLog, lastOutcome, idCounter, resubmits, timeOnTask, vIn, vOut >>

NextClock ==
    \/ InitLoaded
    \/ ConsentChange
    \/ ClickStart
    \/ ClickBack
    \/ ClickNext
    \/ ClickReview
    \/ EditCoherence
    \/ EditRelatedness
    \/ Reload
    \/ ClockChange

SpecClock == InitTimed /\ [][NextClock]_vars

-----------------------------------------------------------------------------
(* The page closed and opened again: time also passes while no page is open *)
(* (between closing the tab and the next load), and that time is spent on   *)
(* no task.                                                                 *)

\* One unit of time passes with the page closed or still loading.
Away ==
    /\ page = "loading"
    /\ now < MaxNow
    /\ now' = now + 1
    /\ UNCHANGED << build, assignmentFile, localStorage, page, assignment, stateKey, state,
                    screen, dom, btnStartDisabled, consentChecked, btnSubmitDisabled, submitStatus, alertMsg,
                    flight, txLog, lastOutcome, idCounter, resubmits, timeOnTask, vIn, vOut >>

NextAway ==
    \/ InitLoaded
    \/ ConsentChange
    \/ ClickStart
    \/ ClickBack
    \/ ClickNext
    \/ EditCoherence
    \/ EditRelatedness
    \/ Reload
    \/ Tick
    \/ Away

SpecAway == InitTimed /\ [][NextAway]_vars

-----------------------------------------------------------------------------
(* Task identity under reordering: the assignment file is regenerated with  *)
(* its tasks in another order.  A task keeps its task_uid; the sequential   *)
(* task_id of a task that has a task_uid is renumbered by position.         *)

\* The tasks of the assignment under test: two with a task_uid and one of an older
\* file, identified by its task_id alone.
ReorderedTasks ==
    << [ClusterTask EXCEPT !.task_uid = "u1", !.task_id = "t1"],
       [PairTask EXCEPT !.task_uid = "u2", !.task_id = "t2"],
       [PairTask EXCEPT !.task_uid = "", !.task_id = "k3"] >>

SequentialId == <<"t1", "t2", "t3">>

Orders(n) == {p \in [1..n -> 1..n] : \A i, j \in 1..n : p[i] = p[j] => i = j}

\* The file with its tasks in the order p.
Regenerated(tasks, p) ==
    [i \in 1..Len(tasks) |->
        IF tasks[p[i]].task_uid # ""
        THEN [tasks[p[i]] EXCEPT !.task_id = SequentialId[i]]
        ELSE tasks[p[i]]]

\* The answers and the times the user left on the tasks of the file (null: none).
GivenAnswers ==
    {null, Some([DefaultPairAnswer EXCEPT !.relatedness = Some(3)]),
           Some([DefaultPairAnswer EXCEPT !.relatedness = Some(5)])}
GivenTimes == {null, Some(1), Some(2)}

\* The session those answers and times produce: onUpdate stores state.answers[taskKey],
\* updateTimingOnTaskSwitch stores state.taskTimeMs[prevKey].
SessionOf(tasks, given, times) ==
    LET answered == {i \in 1..Len(tasks) : given[i] # null}
        timed == {i \in 1..Len(tasks) : times[i] # null}
        at(I, k) == CHOOSE i \in I : getAnswerKey(tasks[i]) = k
    IN  [defaultState EXCEPT
            !.answers = [k \in {getAnswerKey(tasks[i]) : i \in answered}
                            |-> Val(given[at(answered, k)])],
            !.taskTimeMs = [k \in {getAnswerKey(tasks[i]) : i \in timed}
                               |-> Val(times[at(timed, k)])]]

\* What the page reads for a task: render's state.answers[taskKey] and the
\* state.taskTimeMs[taskKey] its timing adds to.
resolve(s, task) ==
    [answer |-> Lookup(s.answers, getAnswerKey(task)),
     time |-> Lookup(s.taskTimeMs, getAnswerKey(task))]

InitReorder ==
    /\ build = "fetch"
    /\ assignmentFile = [assignment_id |-> <<"asg0">>, tasks |-> <<>>]
    /\ localStorage = [k \in StorageKeys |-> null]
    /\ idCounter = 0
    /\ PageStart
    /\ txLog = <<>>
    /\ resubmits = 0
    /\ now = 1
    /\ timeOnTask = EmptyMap
    /\ lastOutcome = "none"
    /\ vIn \in [tasks : {ReorderedTasks},
                perm : Orders(Len(ReorderedTasks)),
                given : [1..Len(ReorderedTasks) -> GivenAnswers],
                times : [1..Len(ReorderedTasks) -> GivenTimes]]
    /\ vOut = NoValidatorRun

\* The session recorded on the file is opened on the regenerated file, and every task
\* of the regenerated file is resolved.
ResolveReordered ==
    /\ ~vOut.ran
    /\ LET s == SessionOf(vIn.tasks, vIn.given, vIn.times)
           tasks == Regenerated(vIn.tasks, vIn.perm)
       IN  vOut' = [ran |-> TRUE,
                    resolved |-> [i \in 1..Len(tasks) |-> resolve(s, tasks[i])]]
    /\ UNCHANGED << build, assignmentFile, localStorage, page, assignment, stateKey, state,
                    screen, dom, btnStartDisabled, consentChecked, btnSubmitDisabled, submitStatus, alertMsg,
                    flight, txLog, lastOutcome, idCounter, resubmits, now, timeOnTask, vIn >>

NextReorder == ResolveReordered

SpecReorder == InitReorder /\ [][NextReorder]_vars

-----------------------------------------------------------------------------
(* Storage keys on their own: two sessions of one browser profile, each of  *)
(* an expert (the `expert` URL parameter) and an assignment (the            *)
(* assignment_id of the file served for that expert).                       *)

ExpertIds == { <<"E1">>, <<"E2">>, <<"client_session_id">>, <<"E1", "::", "x">> }
AssignmentIds == { <<"asg1">>, <<"asg2">>, <<"E1">>, <<"x", "::", "asg1">> }

InitKeys ==
    /\ build = "fetch"
    /\ assignmentFile = [assignment_id |-> <<"asg0">>, tasks |-> <<>>]
    /\ localStorage = [k \in StorageKeys |-> null]
    /\ idCounter = 0
    /\ PageStart
    /\ txLog = <<>>
    /\ resubmits = 0
    /\ now = 1
    /\ timeOnTask = EmptyMap
    /\ lastOutcome = "none"
    /\ vIn \in [a : [expert : ExpertIds, assignment : AssignmentIds],
                b : [expert : ExpertIds, assignment : AssignmentIds]]
    /\ vOut = NoValidatorRun

\* init() and ensureClientSessionId() compute the keys of both sessions.
ComputeKeys ==
    /\ ~vOut.ran
    /\ vOut' = [ran |-> TRUE,
                a |-> [session |-> storageKey(vIn.a.expert, vIn.a.assignment),
                       client |-> clientSessionKey(vIn.a.expert)],
                b |-> [session |-> storageKey(vIn.b.expert, vIn.b.assignment),
                       client |-> clientSessionKey(vIn.b.expert)]]
    /\ UNCHANGED << build, assignmentFile, localStorage, page, assignment, stateKey, state,
                    screen, dom, btnStartDisabled, consentChecked, btnSubmitDisabled, submitStatus, alertMsg,
                    flight, txLog, lastOutcome, idCounter, resubmits, now, timeOnTask, vIn >>

NextKeys == ComputeKeys

SpecKeys == InitKeys /\ [][NextKeys]_vars

-----------------------------------------------------------------------------
(* One expert, one browser profile, several assignments: between two page   *)
(* loads the file served at data/assignments/<expert>.json is replaced by   *)
(* another assignment.                                                      *)

\* The expert is given another assignment; the page picks it up on its next load.
Redeploy ==
    /\ page = "loading"
    /\ \E f \in AssignmentFiles :
          /\ f # assignmentFile
          /\ assignmentFile' = f
    /\ UNCHANGED << build, localStorage, page, assignment, stateKey, state,
                    screen, dom, btnStartDisabled, consentChecked, btnSubmitDisabled, submitStatus, alertMsg,
                    flight, txLog, lastOutcome, idCounter, resubmits, now, timeOnTask,
                    vIn, vOut >>

InitDeploy ==
    /\ build = "fetch"
    /\ assignmentFile \in AssignmentFiles
    /\ InitStorage
    /\ PageStart
    /\ txLog = <<>>
    /\ resubmits = 0
    /\ now = 1
    /\ timeOnTask = EmptyMap
    /\ lastOutcome = "none"
    /\ vIn = [task |-> PairTask, answer |-> null]
    /\ vOut = NoValidatorRun

NextDeploy ==
    \/ InitLoaded
    \/ InitLoadFailed
    \/ ConsentChange
    \/ ClickStart
    \/ ClickNext
    \/ EditCoherence
    \/ EditRelatedness
    \/ ClickSubmit
    \/ FetchOk
    \/ FetchHttpError
    \/ Reload
    \/ Redeploy

SpecDeploy == InitDeploy /\ [][NextDeploy]_vars

-----------------------------------------------------------------------------
(* computeClusterBatchInfo on its own: every assignment of a bounded family  *)
(* of task lists, in every storage order; the clusters of one clustering    *)
(* are split in batches, each batch a cluster task of its own.              *)

\* a.batch_index ?? 0
BatchIndexOrZero(t) == Number(t.batch_index)

\* One step of the stable sort: t goes behind every task whose batch index is not
\* greater than its own.
InsertByBatchIndex(sorted, t) ==
    LET n == Cardinality({i \in 1..Len(sorted) :
                             BatchIndexOrZero(sorted[i]) <= BatchIndexOrZero(t)})
    IN  SubSeq(sorted, 1, n) \o <<t>> \o SubSeq(sorted, n + 1, Len(sorted))

\* same.slice().sort((a,b) => (a.batch_index ?? 0) - (b.batch_index ?? 0))
RECURSIVE SortByBatchIndex(_)
SortByBatchIndex(same) ==
    IF Len(same) = 0 THEN <<>>
    ELSE InsertByBatchIndex(SortByBatchIndex(SubSeq(same, 1, Len(same) - 1)),
                            same[Len(same)])

\* sorted.findIndex(t => getAnswerKey(t) === getAnswerKey(task)), 0-based, -1 if none
FindIndexByAnswerKey(sorted, task) ==
    LET hits == {i \in 1..Len(sorted) : getAnswerKey(sorted[i]) = getAnswerKey(task)}
    IN  IF hits = {} THEN -1
        ELSE (CHOOSE i \in hits : \A j \in hits : i <= j) - 1

computeClusterBatchInfo_StorageOrder(tasks, task) ==
    IF task.type # "cluster" THEN null
    ELSE LET InSameCluster(t) == /\ t.type = "cluster"
                                 /\ t.clustering_id = task.clustering_id
                                 /\ t.cluster_id = task.cluster_id
             same == SelectSeq(tasks, InSameCluster)
         IN  IF Len(same) <= 1 THEN null
             ELSE LET idx == FindIndexByAnswerKey(same, task)
                  IN  Some([k |-> IF idx >= 0 THEN Some(idx + 1) ELSE null,
                            K |-> Len(same)])

\* computeClusterBatchInfo(task), with assignment.tasks as `tasks`
computeClusterBatchInfo(tasks, task) ==
    IF task.type # "cluster" THEN null
    ELSE LET InSameCluster(t) == /\ t.type = "cluster"
                                 /\ t.clustering_id = task.clustering_id
                                 /\ t.cluster_id = task.cluster_id
             same == SelectSeq(tasks, InSameCluster)
         IN  IF Len(same) <= 1 THEN null
             ELSE LET sorted == SortByBatchIndex(same)
                      idx == FindIndexByAnswerKey(sorted, task)
                  IN  Some([k |-> IF idx >= 0 THEN Some(idx + 1) ELSE null,
                            K |-> Len(sorted)])

\* Longest task list of the family.
MaxTasks == 3

\* batch_index as a file may carry it: absent, or a batch number.
BatchIndexInputs == {null, Some(0), Some(1), Some(2)}

\* The tasks a file may hold at position i: a batch of cluster 0, a batch of cluster 1,
\* or a pair task; every task has a task_uid of its own.
TaskChoices(i) ==
    {[type |-> "cluster", task_uid |-> ToString(i), task_id |-> "", clustering_id |-> "A",
      cluster_id |-> c, batch_index |-> b, items |-> <<"d1">>] :
        c \in {"0"}, b \in BatchIndexInputs}
    \cup {[type |-> "cluster", task_uid |-> ToString(i), task_id |-> "",
           clustering_id |-> "A", cluster_id |-> "1", batch_index |-> Some(0),
           items |-> <<"d1">>]}
    \cup {[type |-> "pair", task_uid |-> ToString(i), task_id |-> "", clustering_id |-> "A"]}

TaskLists ==
    UNION {{l \in [1..n -> UNION {TaskChoices(i) : i \in 1..n}] :
               \A i \in 1..n : l[i] \in TaskChoices(i)} : n \in 1..MaxTasks}

NoBatchInfoRun == [ran |-> FALSE, task |-> 0, info |-> null]

InitBatch ==
    /\ build = "fetch"
    /\ assignmentFile = [assignment_id |-> <<"asg0">>, tasks |-> <<>>]
    /\ localStorage = [k \in StorageKeys |-> null]
    /\ idCounter = 0
    /\ PageStart
    /\ txLog = <<>>
    /\ resubmits = 0
    /\ now = 1
    /\ timeOnTask = EmptyMap
    /\ lastOutcome = "none"
    /\ vIn \in {[tasks |-> l] : l \in TaskLists}
    /\ vOut = NoBatchInfoRun

\* render() asks computeClusterBatchInfo(task) for one task of the list.
RunComputeClusterBatchInfo ==
    /\ \E i \in 1..Len(vIn.tasks) :
          vOut' = [ran |-> TRUE, task |-> i,
                   info |-> computeClusterBatchInfo(vIn.tasks, vIn.tasks[i])]
    /\ UNCHANGED << build, assignmentFile, localStorage, page, assignment, stateKey, state,
                    screen, dom, btnStartDisabled, consentChecked, btnSubmitDisabled, submitStatus, alertMsg,
                    flight, txLog, lastOutcome, idCounter, resubmits, now, timeOnTask, vIn >>

NextBatch == RunComputeClusterBatchInfo

SpecBatch == InitBatch /\ [][NextBatch]_vars

-----------------------------------------------------------------------------
(* The page with its own timers taken as fair: a timer set with setTimeout   *)
(* fires.  Nothing obliges the forms collaborator or the network to answer,  *)
(* so the settling of fetch() and the load event of the iframe are not fair. *)

SpecLive == Spec /\ WF_vars(FallbackTimer)

-----------------------------------------------------------------------------
(* The page on a first visit: the browser profile holds no record of the    *)
(* session, and everything the storage comes to hold was written through    *)
(* the page's own handlers.                                                 *)

InitFresh ==
    /\ build \in {"fetch", "iframe"}
    /\ assignmentFile \in AssignmentFiles
    /\ localStorage = [k \in StorageKeys |-> null]
    /\ idCounter = 0
    /\ PageStart
    /\ txLog = <<>>
    /\ resubmits = 0
    /\ now = 1
    /\ timeOnTask = EmptyMap
    /\ lastOutcome = "none"
    /\ vIn = [task |-> PairTask, answer |-> null]
    /\ vOut = NoValidatorRun

SpecFresh == InitFresh /\ [][Next]_vars

-----------------------------------------------------------------------------
(* What the specification calls a complete answer, in its own words.        *)

RatingScale == 1..5
InScale(m) == m # null /\ Val(m) \in RatingScale

ClusterComplete(task, answer) ==
    /\ answer # null
    /\ \A i \in 1..Len(task.items) :
          LET a == Lookup(Val(answer).items, task.items[i])
          IN  a # null /\ InScale(Val(a).coherence)

PairComplete(task, answer) ==
    /\ answer # null
    /\ InScale(Val(answer).relatedness)
    /\ (Val(Val(answer).relatedness) >= 4 => Trim(Val(answer).common_theme) # <<>>)

Complete(task, answer) ==
    IF task.type = "cluster" THEN ClusterComplete(task, answer)
    ELSE IF task.type = "pair" THEN PairComplete(task, answer)
    ELSE TRUE

AllComplete(s, asg) ==
    \A i \in 1..Len(asg.tasks) :
        Complete(asg.tasks[i], Lookup(s.answers, getAnswerKey(asg.tasks[i])))

\* The submitted flag of the session record in storage.
StoredSubmitted == Stored # null /\ Val(Stored).submitted

-----------------------------------------------------------------------------
(* Properties.                                                              *)

\* C6: validateTask accepts a cluster answer exactly when every item of the task has an
\* entry whose coherence is a non-null rating in 1..5; a missing answer, a missing item
\* entry or a coherence outside 1..5 is rejected.
C6_ClusterAcceptedIffAllInScale ==
    (vOut.ran /\ vIn.task.type = "cluster")
        => (vOut.ok <=> ClusterComplete(vIn.task, vIn.answer))

\* C7: validateTask accepts a pair answer exactly when its relatedness is a non-null
\* rating in 1..5 and, for a relatedness of 4 or 5, the trimmed common theme is non-empty.
C7_PairAcceptedIffRatedAndThemed ==
    (vOut.ran /\ vIn.task.type = "pair")
        => (vOut.ok <=> PairComplete(vIn.task, vIn.answer))

\* How a transmission can end without the collaborator having taken the payload, and the
\* texts the page shows for a failed attempt.
FailedOutcomes == {"http_error", "network_error", "timeout"}
ErrorStatuses == {"http error", "network error", "submit error", "form not found"}
ValidationMsgs == {MsgAnswerCluster, MsgRateAllItems, MsgRateRelatedness, MsgCommonTheme}

\* The screen the resume rule derives from a session record.
ScreenOf(rec, n) ==
    IF rec.submitted THEN "thanks"
    ELSE IF ~rec.started THEN "welcome"
    ELSE IF rec.taskIndex >= n THEN "submit"
    ELSE "task"

\* C1: the session is submitted (flag set, thanks screen shown) only after an attempt
\* that validated every task and whose transmission completed successfully; never after
\* a transmission that failed or was never acknowledged.
C1_SubmittedOnlyAfterSuccess ==
    (page = "ready" /\ st.submitted /\ lastOutcome # "none")
        => (lastOutcome = "ok" /\ AllComplete(st, asgn) /\ screen = "thanks")

\* C2: when the transmission of an attempt fails (network error, non-success status, no
\* acknowledgement), submitted stays false in memory and in storage, an error is shown
\* and the submit control is enabled again.
C2_FailureLeavesUnsubmitted ==
    lastOutcome \in FailedOutcomes
        => /\ page = "ready"
           /\ ~st.submitted
           /\ ~StoredSubmitted
           /\ submitStatus \in ErrorStatuses
           /\ ~btnSubmitDisabled

\* C3 as stated: over a whole run of a session the payload is transmitted exactly once;
\* a submitted session has caused exactly one transmission and no session more than one.
C3_TransmittedExactlyOnce ==
    /\ Len(txLog) <= 1
    /\ (StoredSubmitted => Len(txLog) = 1)

\* C3 amended: every step transmits at most one payload, and only for a session that is
\* not submitted and whose tasks are all complete; a submitted session has caused at least
\* one transmission, and none is made once the stored record is submitted.
C3_SentPerAttemptNeverAfterSubmitted ==
    [][ /\ (txLog' # txLog =>
               /\ page = "ready"
               /\ ~st.submitted
               /\ ~StoredSubmitted
               /\ AllComplete(st, asgn)
               /\ Len(txLog') = Len(txLog) + 1
               /\ SubSeq(txLog', 1, Len(txLog)) = txLog
               /\ txLog'[Len(txLog')].client_session_id = st.clientSessionId)
        /\ (StoredSubmitted' => Len(txLog') >= 1) ]_vars

C3_Witness ==
    /\ StoredSubmitted
    /\ Len(txLog) > 1

\* C4: submit() invoked on a session that is already submitted transmits nothing and
\* changes no session field, in memory or in storage; it only shows the thanks screen,
\* however often it is invoked.
C4_SubmitOnSubmittedIsNoOp ==
    [][ resubmits' # resubmits =>
            /\ txLog' = txLog
            /\ state' = state
            /\ localStorage' = localStorage
            /\ idCounter' = idCounter
            /\ flight' = flight
            /\ screen' = "thanks" ]_vars

C4_Witness ==
    /\ resubmits > 1
    /\ page = "ready"
    /\ st.submitted
    /\ screen = "thanks"
    /\ Len(txLog) = 1

\* C5: submit() validates every task of the assignment, not only the current one; when a
\* task is incomplete nothing is transmitted, finishedAt is not stamped, submitted stays
\* false, the incomplete-answers message is shown and the submit control is enabled.
C5_IncompleteBlocksSubmit ==
    [][ (page = "ready" /\ ~st.submitted /\ ~AllComplete(st, asgn)) =>
            /\ txLog' = txLog
            /\ (state' # null => /\ st'.finishedAt = st.finishedAt
                                 /\ ~st'.submitted)
            /\ ~StoredSubmitted'
            /\ (ClickSubmit => /\ submitStatus' = "incomplete answers"
                               /\ ~btnSubmitDisabled'
                               /\ state' = state
                               /\ localStorage' = localStorage
                               /\ screen' = "submit") ]_vars

C5_Witness ==
    /\ page = "ready"
    /\ screen = "submit"
    /\ st.taskIndex >= taskCount
    /\ ~AllComplete(st, asgn)
    /\ submitStatus = "incomplete answers"
    /\ ~btnSubmitDisabled
    /\ st.finishedAt = null
    /\ txLog = <<>>

\* C8: a Next click advances taskIndex by one only if the stored answer of the current
\* task is complete; otherwise a message is shown and taskIndex, the answers and the
\* persisted record stay as they are.
C8_NextGatedByValidation ==
    [][ /\ (page = "ready" /\ page' = "ready" /\ st'.taskIndex = st.taskIndex + 1) =>
               /\ screen = "task"
               /\ Complete(asgn.tasks[st.taskIndex + 1],
                           Lookup(st.answers, getAnswerKey(asgn.tasks[st.taskIndex + 1])))
        /\ ClickNext =>
               IF Complete(asgn.tasks[st.taskIndex + 1],
                           Lookup(st.answers, getAnswerKey(asgn.tasks[st.taskIndex + 1])))
               THEN st'.taskIndex = st.taskIndex + 1 /\ alertMsg' = ""
               ELSE /\ alertMsg' \in ValidationMsgs
                    /\ state' = state
                    /\ localStorage' = localStorage
                    /\ screen' = screen ]_vars

C8_Witness ==
    /\ page = "ready"
    /\ screen = "task"
    /\ alertMsg = MsgCommonTheme
    /\ st.taskIndex = 1
    /\ Stored # null
    /\ Val(Stored).taskIndex = 1

\* C9: taskIndex stays within 0..(number of tasks) whatever Back, Next and Review clicks
\* are made; Back is available on every task past the first whether or not the answer is
\* complete, lowers taskIndex by one, and its clamp keeps index 0 at 0.
C9_IndexInRangeBackUngated ==
    /\ [](page = "ready" =>
             /\ st.taskIndex \in 0..taskCount
             /\ clamp(0 - 1, 0, taskCount) = 0
             /\ (screen = "task" /\ st.taskIndex > 0 => ENABLED ClickBack))
    /\ [][ClickBack => st'.taskIndex = Max2(0, st.taskIndex - 1)]_vars

C9_Witness ==
    /\ page = "ready"
    /\ screen = "task"
    /\ st.taskIndex = 0
    /\ ~Complete(PairTask, Lookup(st.answers, getAnswerKey(PairTask)))
    /\ Lookup(st.answers, getAnswerKey(PairTask)) # null

\* C10: the screen on display is the one a page load reconstructs from the persisted
\* record (thanks if submitted, else welcome if not started, else submit if taskIndex
\* has reached the task count, else the task at taskIndex), so that a reload between
\* two user events shows the same screen and the same task.
C10_ScreenIsThatOfStoredRecord ==
    page = "ready"
        => /\ Stored # null
           /\ screen = ScreenOf(Val(Stored), taskCount)
           /\ (screen = "task" => dom.task = Val(Stored).taskIndex + 1)

\* The session record in storage under the key this page writes to.
PageRecord == loadState(localStorage, Val(stateKey))

\* C11: whenever a handler has finished, the persisted session record equals the
\* in-memory session in every field (taskTimeMs, the timing cursor and
\* lastSubmissionUuid included).
C11_StoredEqualsMemory ==
    page = "ready" => PageRecord = state

\* C12: startedAt is recorded by the first Start of the session (a started session has
\* one, and Start on a session without one records the current time), and once the
\* persisted record has a startedAt no step (reload, resume, navigation, edit,
\* submission attempt) changes it, in storage or in memory.
C12_StartedAtRecordedOnceNeverChanged ==
    /\ [](Stored # null /\ Val(Stored).started => Val(Stored).startedAt # null)
    /\ [](page = "ready" => st.startedAt = Val(Stored).startedAt)
    /\ [][ClickStart /\ assignment # null /\ st.startedAt = null
             => Val(Stored').startedAt = Some(now)]_vars
    /\ [][Stored # null /\ Val(Stored).startedAt # null
             => Stored' # null /\ Val(Stored').startedAt = Val(Stored).startedAt]_vars

\* A session started at time 1 is resumed by a later page load, after a submission
\* attempt that failed.
C12_Witness ==
    /\ page = "ready"
    /\ st.started
    /\ st.startedAt = Some(1)
    /\ now > 2
    /\ st._lastTaskEnterAt = Some(now)
    /\ Len(txLog) > 0
    /\ ~st.submitted
    /\ lastOutcome = "none"
\* C13: when the assignment's tasks are put in another order with their task_uid
\* values kept (sequential task_ids renumbered by position), every task resolves to
\* the answer record and the timing entry it had before: the ones the user left on
\* that task, wherever the task now stands.
C13_ResolutionSurvivesReordering ==
    vOut.ran =>
        \A i \in 1..Len(vIn.tasks) :
            vOut.resolved[i] = [answer |-> vIn.given[vIn.perm[i]],
                                time |-> vIn.times[vIn.perm[i]]]

\* The three tasks are rotated, each had an answer and a time of its own, and the
\* task now in first place had none of the first place's.
C13_Witness ==
    /\ vOut.ran
    /\ vIn.perm = <<2, 3, 1>>
    /\ \A i \in 1..Len(vIn.tasks) : vIn.given[i] # null /\ vIn.times[i] # null
    /\ vIn.given[1] # vIn.given[2]
    /\ vIn.times[1] # vIn.times[2]
    /\ vOut.resolved[1].answer = vIn.given[2]
\* The time the session has accounted to task key k: its taskTimeMs entry plus, when k
\* is the task being timed, the time since it was entered.
AccountedTime(s, k) ==
    Number(Lookup(s.taskTimeMs, k))
        + (IF s._lastTaskKey = Some(k) THEN now - Val(s._lastTaskEnterAt) ELSE 0)

\* C14: every task's accounted time is the time that passed while the cursor stood on
\* it, summed over all its visits: each cursor change (moving past the last task
\* included) adds the time since the task left became current to that task's total.
C14_TimePerTaskIsSumOfVisits ==
    page = "ready" =>
        \A i \in 1..taskCount :
            AccountedTime(st, getAnswerKey(asgn.tasks[i]))
                = Number(Lookup(timeOnTask, getAnswerKey(asgn.tasks[i])))
\* C15: two sessions with different (expertId, assignmentId) pairs have different
\* record keys (two assignments of one expert in particular), and no session's record
\* key is a key under which a client session identifier is stored.
C15_SessionsNeverShareARecord ==
    vOut.ran =>
        /\ (vIn.a # vIn.b => vOut.a.session # vOut.b.session)
        /\ vOut.a.session \notin {vOut.a.client, vOut.b.client}
        /\ vOut.b.session \notin {vOut.a.client, vOut.b.client}
\* The client session identifier stored for the expert in this browser profile.
StoredClientSessionId == localStorage[clientSessionKey(expertId)]

\* The session records in storage, one per assignment the expert has opened.
StoredSessions ==
    {Val(loadState(localStorage, storageKey(expertId, f.assignment_id))) :
        f \in {g \in AssignmentFiles :
                  loadState(localStorage, storageKey(expertId, g.assignment_id)) # null}}

\* C16: the client session identifier of the expert is generated once (once stored it
\* never changes); every session record of the expert, whatever its assignment, and
\* the session in memory carry it as clientSessionId; every payload transmitted
\* carries it as client_session_id.
C16_OneClientSessionIdPerExpert ==
    /\ [][StoredClientSessionId # null
             => StoredClientSessionId' = StoredClientSessionId]_vars
    /\ [](\A s \in StoredSessions :
             /\ StoredClientSessionId # null
             /\ s.clientSessionId = Some(Val(StoredClientSessionId).val))
    /\ [](page = "ready"
             => st.clientSessionId = Some(Val(StoredClientSessionId).val))
    /\ [](\A i \in 1..Len(txLog) :
             txLog[i].client_session_id = Some(Val(StoredClientSessionId).val))

\* The expert has a started session on each of the assignments, the page is open on
\* one of them and a payload has been transmitted.
C16_Witness ==
    /\ Cardinality(StoredSessions) = Cardinality(AssignmentFiles)
    /\ \A s \in StoredSessions : s.started
    /\ Len(txLog) > 0
    /\ page = "ready"
\* C17: a submission attempt on complete answers draws a submission identifier that
\* differs from the previous one and from that of every earlier transmission; no two
\* transmissions carry the same submission_uuid, and all carry the same
\* client_session_id.
C17_FreshSubmissionIdPerAttempt ==
    /\ [][ClickSubmit /\ ~st.submitted /\ AllComplete(st, asgn) =>
             /\ st'.lastSubmissionUuid # null
             /\ st'.lastSubmissionUuid # st.lastSubmissionUuid
             /\ \A i \in 1..Len(txLog) :
                   Some(txLog[i].submission_uuid) # st'.lastSubmissionUuid]_vars
    /\ [](\A i, j \in 1..Len(txLog) :
             /\ (i # j => txLog[i].submission_uuid # txLog[j].submission_uuid)
             /\ txLog[i].client_session_id = txLog[j].client_session_id)

\* A retry is in flight after an attempt that was reported as failed.
C17_Witness ==
    /\ Len(txLog) > 1
    /\ flight.pending
    /\ ~StoredSubmitted
    /\ page = "ready"
    /\ Some(txLog[Len(txLog)].submission_uuid) = st.lastSubmissionUuid
\* C18: when the assignment fetch fails the failure is reported; on the failed page
\* there is no assignment and no session in memory, the welcome screen stays, and no
\* step taken on it (Start included) writes to storage, transmits anything or creates
\* a session; the page leaves the failed state only by being loaded again, and a
\* session is started only on a page whose load succeeded.
C18_FailedLoadNeverStartsSession ==
    /\ [][page = "loading" /\ page' = "failed" =>
             /\ alertMsg' = "assignment not found"
             /\ localStorage' = localStorage]_vars
    /\ [](page = "failed" =>
             /\ assignment = null
             /\ state = null
             /\ stateKey = null
             /\ screen = "welcome")
    /\ [][page = "failed" =>
             /\ localStorage' = localStorage
             /\ txLog' = txLog
             /\ page' \in {"failed", "loading"}
             /\ (page' = "failed" => state' = null /\ screen' = "welcome")]_vars
    /\ [][(Stored = null \/ ~Val(Stored).started) /\ Stored' # null /\ Val(Stored').started
             => page = "ready" /\ assignment # null]_vars

\* The load failed on a profile that holds a session not yet started (left by an
\* earlier load that succeeded), the failure has been reported and dismissed, and the
\* user has ticked the consent box: Start can be clicked.
C18_Witness ==
    /\ page = "failed"
    /\ ~btnStartDisabled
    /\ alertMsg = ""
    /\ Stored # null
    /\ ~Val(Stored).started
    /\ ENABLED ClickStart
\* The value under the session key of the served assignment is not parseable as JSON.
StoredMalformed ==
    LET raw == localStorage[storageKey(expertId, assignmentFile.assignment_id)]
    IN  raw # null /\ Val(raw).kind = "garbage"

\* C19: a page load that finds a malformed value under the session key can complete,
\* raises no error, and leaves the session in the default state, in memory and in
\* storage: not started, taskIndex 0, no answers, not submitted, welcome screen.
C19_MalformedRecordMeansDefaults ==
    /\ [](page = "loading" /\ StoredMalformed => ENABLED InitLoaded)
    /\ [][page = "loading" /\ StoredMalformed /\ page' = "ready" =>
             /\ alertMsg' = ""
             /\ ~st'.started /\ st'.startedAt = null
             /\ st'.taskIndex = 0
             /\ st'.answers = EmptyMap
             /\ ~st'.submitted
             /\ st'.taskTimeMs = EmptyMap
             /\ screen' = "welcome"
             /\ Stored' = state']_vars

\* A page is loading on a profile whose session key holds a malformed value, and the
\* load can complete.
C19_Witness ==
    /\ page = "loading"
    /\ StoredMalformed
    /\ Len(assignmentFile.tasks) > 0
    /\ ENABLED InitLoaded
\* C20: while a transmission is awaited the submit control is disabled and Submit
\* cannot be clicked; no step taken meanwhile (Review, edits, navigation) hands over
\* a second payload or draws another submission id; the wait ends with the session
\* submitted or with a failure shown and the control enabled again.
C20_AtMostOneSubmissionInFlight ==
    /\ [](flight.pending => btnSubmitDisabled /\ ~ENABLED ClickSubmit)
    /\ [][flight.pending /\ flight'.pending =>
             /\ txLog' = txLog
             /\ idCounter' = idCounter
             /\ btnSubmitDisabled']_vars
    /\ [][flight.pending /\ ~flight'.pending /\ page' = "ready" =>
             \/ st'.submitted /\ screen' = "thanks"
             \/ submitStatus' \in ErrorStatuses /\ ~btnSubmitDisabled']_vars

\* Review was clicked while the transmission was awaited: the cursor is back on the
\* last task, the submit screen is still on display and the transmission still awaited.
C20_Witness ==
    /\ flight.pending
    /\ screen = "submit"
    /\ st.taskIndex < taskCount
\* C21: every transmission that is awaited eventually ends: the page shows the thanks
\* screen, or an error status with the submit control enabled again (or the page is
\* closed meanwhile), even if the collaborator never answers.
C21_TransmissionEventuallyEnds ==
    flight.pending ~>
        \/ page # "ready"
        \/ screen = "thanks"
        \/ submitStatus \in ErrorStatuses /\ ~btnSubmitDisabled
\* The fields of a session record that hold the expert's work.
WorkOf(s) ==
    [taskIndex |-> s.taskIndex, answers |-> s.answers, startedAt |-> s.startedAt,
     finishedAt |-> s.finishedAt, taskTimeMs |-> s.taskTimeMs]

\* C22: once the session is submitted it stays submitted, in storage and in memory,
\* and no step (user event, repeated submit, timer, page load) changes its taskIndex,
\* answers, startedAt, finishedAt or taskTimeMs; a page showing a submitted session
\* shows the thanks screen, and a page load that finds one goes straight to it.
C22_SubmittedSessionIsFrozen ==
    /\ [][StoredSubmitted =>
             /\ StoredSubmitted'
             /\ WorkOf(Val(Stored')) = WorkOf(Val(Stored))]_vars
    /\ [][page = "ready" /\ st.submitted /\ page' = "ready" =>
             /\ st'.submitted
             /\ WorkOf(st') = WorkOf(st)]_vars
    /\ [](page = "ready" /\ st.submitted => screen = "thanks" /\ StoredSubmitted)
    /\ [][page = "loading" /\ StoredSubmitted /\ page' = "ready" =>
             /\ screen' = "thanks"
             /\ WorkOf(st') = WorkOf(Val(Stored))]_vars

\* A session submitted earlier in the behaviour has been loaded again, and submit()
\* has been invoked on it once more.
C22_Witness ==
    /\ page = "ready"
    /\ st.submitted
    /\ Len(txLog) > 0
    /\ lastOutcome = "none"
    /\ resubmits = 1
    /\ screen = "thanks"
C24_CompleteSessionReachesThanks ==
    /\ [][ClickNext /\ AllComplete(st, asgn) =>
             /\ st'.taskIndex = st.taskIndex + 1
             /\ (st'.taskIndex = taskCount => screen' = "submit")
             /\ (st'.taskIndex < taskCount => screen' = "task" /\ dom'.task = st'.taskIndex + 1)]_vars
    /\ [][ClickSubmit /\ ~st.submitted /\ AllComplete(st, asgn) =>
             \/ flight'.pending /\ Len(txLog') = Len(txLog) + 1
             \/ submitStatus' \in {"form not found", "submit error"}]_vars
    /\ [][flight.pending /\ lastOutcome' = "ok" =>
             /\ screen' = "thanks"
             /\ st'.submitted
             /\ StoredSubmitted']_vars

\* The two-task session was answered completely, submitted at the first attempt, and
\* the collaborator accepted the transmission.
C24_Witness ==
    /\ page = "ready"
    /\ taskCount > 1
    /\ AllComplete(st, asgn)
    /\ lastOutcome = "ok"
    /\ Len(txLog) = 1
    /\ screen = "thanks"
    /\ StoredSubmitted

C26_AttemptStampsPersistedBeforeTransmission ==
    (page = "ready" /\ flight.pending) =>
        /\ PageRecord # null
        /\ Val(PageRecord).finishedAt = Val(state).finishedAt
        /\ Val(PageRecord).lastSubmissionUuid = Val(state).lastSubmissionUuid

\* C27: a submission attempt whose transmission fails leaves every session field, in
\* memory and in storage, as it was before the attempt: neither the step that starts the
\* transmission nor the step that reports its failure changes the session record or the
\* storage; only the submit control and the status line change.
C27_FailedAttemptChangesNoSessionField ==
    [][ (\/ (~flight.pending /\ flight'.pending)
         \/ (flight.pending /\ lastOutcome' \in FailedOutcomes))
        => (state' = state /\ localStorage' = localStorage) ]_vars

\* C28: a started, unsubmitted session shows the submit screen exactly when its taskIndex
\* equals the task count and the task screen when its taskIndex is smaller; in particular
\* an accepted Next on the last task leaves taskIndex at the task count with the submit
\* screen shown.
C28_ScreenFollowsTaskIndex ==
    /\ []((page = "ready" /\ state # null /\ st.started /\ ~st.submitted) =>
             screen = IF st.taskIndex = taskCount THEN "submit" ELSE "task")
    /\ [][ (page = "ready" /\ screen = "task" /\ st.taskIndex = taskCount - 1
              /\ page' = "ready" /\ Val(state').taskIndex > st.taskIndex)
           => (Val(state').taskIndex = taskCount /\ screen' = "submit") ]_vars

\* C29: the time accounted to a task is never negative and never decreases over any
\* sequence of cursor changes, also when the clock read at a cursor change is earlier
\* than the clock read when the task was entered (the time added is then 0): neither the
\* session of an open page nor the persisted record ever loses accounted time.
C29_TaskTimeNeverNegativeNeverDecreases ==
    /\ []((page = "ready" /\ state # null) =>
             \A k \in DOMAIN st.taskTimeMs : st.taskTimeMs[k] >= 0)
    /\ [][ (page = "ready" /\ page' = "ready" /\ state # null /\ state' # null) =>
              \A k \in DOMAIN st.taskTimeMs :
                 /\ k \in DOMAIN Val(state').taskTimeMs
                 /\ Val(state').taskTimeMs[k] >= st.taskTimeMs[k] ]_vars
    /\ [][ (Stored # null /\ Stored' # null) =>
              \A k \in DOMAIN Val(Stored).taskTimeMs :
                 /\ k \in DOMAIN Val(Stored').taskTimeMs
                 /\ Val(Stored').taskTimeMs[k] >= Val(Stored).taskTimeMs[k] ]_vars

\* The session was started at clock 2 on the cluster task; the cursor left it for the
\* pair task at clock 1, and nothing was added to the cluster task's time.
C29_Witness ==
    /\ page = "ready" /\ state # null
    /\ st.startedAt = Some(2)
    /\ st._lastTaskKey = Some(getAnswerKey(PairTask))
    /\ st._lastTaskEnterAt = Some(1)
    /\ getAnswerKey(ClusterTask) \in DOMAIN st.taskTimeMs
    /\ st.taskTimeMs[getAnswerKey(ClusterTask)] = 0

\* The positions of the list that hold a cluster task of the same clustering and cluster
\* as the task at position i.
BatchGroup(l, i) ==
    {j \in 1..Len(l) : /\ l[j].type = "cluster"
                       /\ l[j].clustering_id = l[i].clustering_id
                       /\ l[j].cluster_id = l[i].cluster_id}

\* 1-based place of position i in its group ordered by batch index (absent = 0), equal
\* batch indexes in storage order.
BatchPlace(l, i) ==
    1 + Cardinality({j \in BatchGroup(l, i) :
                        \/ BatchIndexOrZero(l[j]) < BatchIndexOrZero(l[i])
                        \/ (BatchIndexOrZero(l[j]) = BatchIndexOrZero(l[i]) /\ j < i)})

\* C30: for a cluster task whose clustering and cluster are shared by K >= 2 cluster
\* tasks, computeClusterBatchInfo returns K and the task's 1-based place k in the group
\* stably ordered by batch_index (absent = 0), whatever the storage order; for a group of
\* one and for a pair task it returns no part information.
C30_BatchInfoIsPlaceInSortedGroup ==
    vOut.ran =>
        LET l == vIn.tasks
            i == vOut.task
        IN  IF l[i].type = "cluster" /\ Cardinality(BatchGroup(l, i)) >= 2
            THEN vOut.info = Some([k |-> Some(BatchPlace(l, i)),
                                   K |-> Cardinality(BatchGroup(l, i))])
            ELSE vOut.info = null

\* Three batches of one cluster stored with batch_index 2, 0, 1: the one with
\* batch_index 1 is part 2 of 3.
C30_Witness ==
    /\ vOut.ran
    /\ Len(vIn.tasks) = 3
    /\ \A j \in 1..3 : vIn.tasks[j].type = "cluster" /\ vIn.tasks[j].cluster_id = "0"
    /\ vIn.tasks[1].batch_index = Some(2)
    /\ vIn.tasks[2].batch_index = Some(0)
    /\ vIn.tasks[3].batch_index = Some(1)
    /\ vOut.task = 3
    /\ vOut.info = Some([k |-> Some(2), K |-> 3])

\* The relatedness of an answer counted as the page counts it: unrated is 0.
RelatednessOf(answers, k) ==
    IF k \in DOMAIN answers THEN Number(answers[k].relatedness) ELSE 0

\* C31: while a pair task is displayed, the common-theme field is visible exactly when
\* the stored relatedness is >= 4; an edit rebuilds the task body (and restarts the
\* task's timing) only when it moves the rating across 4 in either direction, unrated
\* counting as below 4; a text edit, or a rating change that stays on its side of 4,
\* leaves the displayed body and the timing fields as they are.
C31_ThemeFieldFollowsRating ==
    /\ []((page = "ready" /\ PairShown /\ PageRecord # null) =>
             (dom.themeShown <=> RelatednessOf(Val(PageRecord).answers, shownKey) >= 4))
    /\ [][ (page = "ready" /\ page' = "ready" /\ PairShown
              /\ Val(state').answers # st.answers) =>
           IF (RelatednessOf(st.answers, shownKey) >= 4)
                 # (RelatednessOf(Val(state').answers, shownKey) >= 4)
           THEN /\ dom'.themeShown # dom.themeShown
                /\ Val(state')._lastTaskEnterAt = Some(now)
           ELSE /\ dom' = dom
                /\ Val(state').taskTimeMs = st.taskTimeMs
                /\ Val(state')._lastTaskKey = st._lastTaskKey
                /\ Val(state')._lastTaskEnterAt = st._lastTaskEnterAt ]_vars

\* A pair task rated 4 or more whose common theme has been typed into the visible field.
C31_Witness ==
    /\ page = "ready" /\ PairShown /\ dom.themeShown
    /\ shownKey \in DOMAIN st.answers
    /\ Number(st.answers[shownKey].relatedness) >= 4
    /\ st.answers[shownKey].common_theme # <<>>

\* The task identities whose answer record differs between two answers maps.
ChangedAnswers(old, new) ==
    {k \in DOMAIN old \cup DOMAIN new :
        IF k \in DOMAIN old /\ k \in DOMAIN new THEN old[k] # new[k] ELSE TRUE}

\* C32: displaying a task creates no answer record.  A page load takes the answers of the
\* persisted record as they are (none for a new session); afterwards the answers map, in
\* memory and in storage, changes only by an edit on the displayed task, which leaves the
\* cursor and the screen where they are and touches that task's record alone.
C32_AnswersCreatedOnlyByEdits ==
    /\ [][ (page = "loading" /\ page' = "ready") =>
              Val(state').answers = IF Stored = null THEN EmptyMap
                                      ELSE Val(Stored).answers ]_vars
    /\ [][ (page = "ready" /\ page' = "ready"
              /\ ChangedAnswers(st.answers, Val(state').answers) # {}) =>
              /\ screen = "task" /\ screen' = "task"
              /\ Val(state').taskIndex = st.taskIndex
              /\ dom.task = st.taskIndex + 1
              /\ ChangedAnswers(st.answers, Val(state').answers) = {shownKey} ]_vars
    /\ [][ (page = "ready" /\ Stored # null /\ Stored' # null
              /\ ChangedAnswers(Val(Stored).answers, Val(Stored').answers) # {}) =>
              /\ page' = "ready" /\ screen = "task"
              /\ ChangedAnswers(Val(Stored).answers, Val(Stored').answers) = {shownKey} ]_vars

\* A task that was displayed, left and displayed again without an edit: it has time
\* accounted to it and no answer record.
C32_Witness ==
    /\ page = "ready" /\ screen = "task" /\ dom.task = st.taskIndex + 1
    /\ st.taskIndex > 0
    /\ shownKey \in DOMAIN st.taskTimeMs
    /\ shownKey \notin DOMAIN st.answers
    /\ PageRecord # null /\ shownKey \notin DOMAIN Val(PageRecord).answers

\* C33: on a first visit, every task at a position below taskIndex has an answer, in
\* memory and in the persisted record, that is complete; hence whenever the submit
\* screen is shown every task's answer is complete, whatever Back, Review and edit
\* sequence came before.
C33_TasksBelowCursorAreComplete ==
    (page = "ready" /\ PageRecord # null) =>
        /\ \A i \in 1..Min2(st.taskIndex, taskCount) :
              /\ Complete(asgn.tasks[i], Lookup(st.answers, getAnswerKey(asgn.tasks[i])))
              /\ Complete(asgn.tasks[i],
                          Lookup(Val(PageRecord).answers, getAnswerKey(asgn.tasks[i])))
        /\ (screen = "submit" => AllComplete(st, asgn) /\ AllComplete(Val(PageRecord), asgn))

\* The submit screen of the two-task assignment after Review: the cursor is back on the
\* last task and every answer is complete.
C33_Witness ==
    /\ page = "ready" /\ screen = "submit"
    /\ taskCount = 2 /\ st.taskIndex = 1
    /\ PageRecord # null /\ Val(PageRecord).taskIndex = 1
    /\ AllComplete(st, asgn)

\* C34: a payload is transmitted only in a step that found every task's answer complete,
\* and that same step serialises the answers it checked: the answers of the session are
\* the same before and after the step, and the payload is the one of the attempt the
\* step recorded.
C34_TransmittedAnswersAreComplete ==
    [][ Len(txLog') > Len(txLog) =>
           /\ Len(txLog') = Len(txLog) + 1
           /\ page = "ready" /\ page' = "ready"
           /\ AllComplete(st, asgn)
           /\ Val(state').answers = st.answers
           /\ AllComplete(Val(state'), asgn)
           /\ Some(txLog'[Len(txLog')].submission_uuid) = Val(state').lastSubmissionUuid
      ]_vars

\* A transmission of the two-task assignment is in flight.
C34_Witness ==
    /\ page = "ready" /\ flight.pending
    /\ taskCount = 2
    /\ Len(txLog) > 0
    /\ Some(txLog[Len(txLog)].submission_uuid) = st.lastSubmissionUuid
    /\ AllComplete(st, asgn)

\* C35: the persisted record of a session that becomes submitted holds the answers and
\* the taskIndex of the snapshot that was transmitted: no step taken while the
\* transmission is in flight changes the answers or the taskIndex of the session, in
\* memory or in storage, and the step that marks the session submitted persists them as
\* they are.
C35_SubmittedRecordIsWhatWasSent ==
    [][ (page = "ready" /\ page' = "ready" /\ flight.pending /\ PageRecord # null) =>
           /\ Val(state').answers = st.answers
           /\ Val(state').taskIndex = st.taskIndex
           /\ Val(PageRecord').answers = st.answers
           /\ Val(PageRecord').taskIndex = st.taskIndex ]_vars

\* C36: before the assignment fetch has completed, a Start click (like every other event)
\* leaves the session, the storage and the screen as they are and raises no alert; the
\* step that completes the fetch chooses the screen from the persisted record alone
\* (the default record when nothing usable is stored).
C36_StartBeforeLoadHasNoEffect ==
    /\ [][ (page = "loading" /\ page' = "loading") =>
              /\ state' = state /\ state = null
              /\ localStorage' = localStorage
              /\ screen' = screen /\ dom' = dom
              /\ alertMsg' = "" ]_vars
    /\ [][ (page = "loading" /\ page' = "ready") =>
              screen' = ScreenOf(IF Stored = null THEN defaultState ELSE Val(Stored),
                                 Len(assignmentFile.tasks)) ]_vars

\* The fetch is still pending, consent is ticked and Start is enabled: a click on Start
\* is possible, and the welcome screen stays with no session in memory.
C36_Witness ==
    /\ page = "loading" /\ screen = "welcome"
    /\ consentChecked /\ ~btnStartDisabled
    /\ state = null /\ assignment = null

\* C37: in the hidden-form/iframe transport the wait of one form submission completes
\* once: an outcome is delivered only by the first of the iframe load and the fallback
\* timer, to a wait not yet completed, which it marks completed and whose listener it
\* removes; an event of the transport that arrives after the completion changes nothing
\* of the session, the storage, the screen or the outcome.
C37_IframeWaitCompletesOnce ==
    /\ [][ (build = "iframe" /\ lastOutcome' # lastOutcome
              /\ lastOutcome' \notin {"pending", "none"}) =>
              /\ lastOutcome = "pending"
              /\ flight.pending /\ ~flight.doneCalled
              /\ ~flight'.pending /\ flight'.doneCalled /\ ~flight'.listener ]_vars
    /\ [][ (build = "iframe" /\ flight.doneCalled /\ flight' # flight /\ page' = "ready") =>
              /\ flight'.doneCalled /\ ~flight'.pending /\ ~flight'.listener
              /\ state' = state /\ localStorage' = localStorage
              /\ screen' = screen /\ lastOutcome' = lastOutcome ]_vars

\* The iframe load completed the wait and the fallback timer has fired after it: the
\* outcome is still the one the load delivered.
C37_Witness ==
    /\ build = "iframe" /\ page = "ready"
    /\ flight.doneCalled /\ ~flight.timer /\ ~flight.listener
    /\ lastOutcome = "ok"
    /\ st.submitted /\ screen = "thanks"

\* C38: started is monotone in the persisted record, and a page that has loaded a started
\* record never shows the welcome screen; the submit screen is left only for the thanks
\* screen or by Review, which takes the session from the submit screen to the last task:
\* it sets taskIndex to the task count - 1 (0 for an empty assignment), persists it and
\* shows that task.
C38_StartedMonotoneReviewLeavesSubmit ==
    /\ [][ (Stored # null /\ Val(Stored).started) =>
              (Stored' # null /\ Val(Stored').started) ]_vars
    /\ []((page = "ready" /\ PageRecord # null /\ Val(PageRecord).started) =>
             screen # "welcome")
    /\ [][ (page = "ready" /\ page' = "ready" /\ screen = "submit" /\ screen' # "submit") =>
              \/ screen' = "thanks"
              \/ (screen' = "task" /\ Val(state').taskIndex = Max2(0, taskCount - 1)) ]_vars
    /\ [][ (page = "ready" /\ page' = "ready" /\ screen = "submit"
              /\ Val(state').taskIndex # st.taskIndex) =>
              /\ Val(state').taskIndex = Max2(0, taskCount - 1)
              /\ Val(PageRecord').taskIndex = Max2(0, taskCount - 1)
              /\ screen' = "task" ]_vars

\* C39: the time recorded for a task never exceeds the time that passed while the page
\* was open with that task displayed: time that passes with the page closed, and time
\* spent on the submit screen, is added to no task's total.
C39_OnlyDisplayedTimeCounts ==
    (page = "ready" /\ state # null) =>
        \A i \in 1..taskCount :
            Number(Lookup(st.taskTimeMs, getAnswerKey(asgn.tasks[i])))
                <= Number(Lookup(timeOnTask, getAnswerKey(asgn.tasks[i])))

====
